---- MODULE Spec2Model ----
(***************************************************************************)
(* Streaming chat client of Sea-MM-RAG (sea-rag-frontend).                 *)
(*                                                                         *)
(*   services/api.ts            processChatStream, clearSession            *)
(*   components/ChatInterface   handleSend and its callbacks, clearChat    *)
(*   App.tsx                    chatKey remount, currentFileId             *)
(*                                                                         *)
(* Text is a sequence of characters.  The protocol words of the wire are   *)
(* single characters of the model's alphabet: "E" is the line prefix       *)
(* 'event: ', "D" is the line prefix 'data: ', a type name ("token", ...)  *)
(* and a JSON document ("ja", ...) are one character each, NL is '\n'.     *)
(***************************************************************************)
EXTENDS Integers, Sequences, FiniteSets, TLC

\* ------------------------------------------------------------------ bounds

\* Sends accepted by handleSend over one run.
MaxSends == 2
\* Successful clears, each of which remounts ChatInterface (App.chatKey).
MaxClears == 1
\* Blocks a mounted ChatInterface receives in one turn, in the specification
\* of one turn and in the specification of the whole session.
MaxTurnEvents == 4
MaxSessionEvents == 2
\* Blocks the network delivers in one chunk.
MaxChunkBlocks == 2
\* Blocks of a whole response body in the transport-only specification.
MaxStreamBlocks == 2
\* References of a rendered message, and clicks on its reference cards.
MaxRefs == 2
MaxClicks == 2
MaxChildren == 2

\* Runs of handleFileUpload that have not ended, and status requests that
\* have not been answered, at one time.
MaxUploads == 1
MaxPolls == 1

\* ------------------------------------------------------------ text helpers

NL == "\n"
SP == " "

Min(a, b) == IF a <= b THEN a ELSE b

\* String.prototype.startsWith
StartsWith(s, p) == Len(s) >= Len(p) /\ SubSeq(s, 1, Len(p)) = p

\* String.prototype.substring(n)
Substring(s, n) == SubSeq(s, n + 1, Len(s))

IsSpace(c) == c \in {NL, SP}

RECURSIVE TrimStart(_)
TrimStart(s) ==
    IF s # <<>> /\ IsSpace(Head(s)) THEN TrimStart(Tail(s)) ELSE s

RECURSIVE TrimEnd(_)
TrimEnd(s) ==
    IF s # <<>> /\ IsSpace(s[Len(s)]) THEN TrimEnd(SubSeq(s, 1, Len(s) - 1)) ELSE s

\* String.prototype.trim
Trim(s) == TrimEnd(TrimStart(s))

\* Index of the first occurrence of sep in s at or after position i, 0 if none.
RECURSIVE IndexOf(_, _, _)
IndexOf(s, sep, i) ==
    IF i + Len(sep) - 1 > Len(s) THEN 0
    ELSE IF SubSeq(s, i, i + Len(sep) - 1) = sep THEN i
    ELSE IndexOf(s, sep, i + 1)

\* String.prototype.split(sep): the pieces between the occurrences of sep,
\* found left to right; always at least one piece.
RECURSIVE Split(_, _)
Split(s, sep) ==
    LET i == IndexOf(s, sep, 1) IN
    IF i = 0 THEN << s >>
    ELSE << SubSeq(s, 1, i - 1) >> \o Split(SubSeq(s, i + Len(sep), Len(s)), sep)

RECURSIVE Concat(_)
Concat(ss) == IF ss = <<>> THEN <<>> ELSE Head(ss) \o Concat(Tail(ss))

\* ------------------------------------------------------------ wire format

EventPrefix == << "E" >>
DataPrefix == << "D" >>
Delimiter == << NL, NL >>

\* JSON documents the server sends, by the character that stands for them.
JsonDocs ==
    [ ja   |-> [text |-> << "a" >>],
      jb   |-> [text |-> << "b" >>],
      jc1  |-> [citation_id |-> "c1", fileId |-> "f1", page |-> 3],
      jc1x |-> [citation_id |-> "c1", fileId |-> "f2", page |-> 5],
      jc2  |-> [citation_id |-> "c2", fileId |-> "f2", page |-> 5],
      jc0  |-> [citation_id |-> "",   fileId |-> "f1", page |-> 3],
      jdT  |-> [used_retrieval |-> TRUE],
      jdF  |-> [used_retrieval |-> FALSE],
      je   |-> [message |-> << "boom" >>],
      je0  |-> [message |-> <<>>] ]

\* JSON.parse: whether it returns, and what.
JsonParses(s) == Len(s) = 1 /\ s[1] \in DOMAIN JsonDocs
JsonParse(s) == JsonDocs[s[1]]

UnknownError == << "Unknown error" >>
Undefined == << "undefined" >>

\* ------------------------------------------- processChatStream (api.ts)

\* api.ts 273-282: the loop over the lines of one block; the last line of
\* each kind wins.
RECURSIVE ScanLines(_, _)
ScanLines(lines, acc) ==
    IF lines = <<>> THEN acc
    ELSE LET line == Head(lines) IN
         ScanLines(Tail(lines),
            IF StartsWith(line, EventPrefix)
            THEN [acc EXCEPT !.eventType = Substring(line, Len(EventPrefix))]
            ELSE IF StartsWith(line, DataPrefix)
            THEN [acc EXCEPT !.eventData = Substring(line, Len(DataPrefix))]
            ELSE acc)

\* api.ts 288-301: the switch on the event type.  The result names the
\* callback invoked (none for a type the switch has no case for) and whether
\* the function returns after it.
SwitchNoReturn(eventType, data) ==
    CASE eventType = << "citation" >> ->
            [calls |-> << [cb |-> "onCitation", arg |-> data] >>, returned |-> FALSE]
      [] eventType = << "token" >> ->
            [calls |-> << [cb |-> "onToken",
                           arg |-> [text |-> IF "text" \in DOMAIN data
                                             THEN data.text ELSE Undefined]] >>,
             returned |-> FALSE]
      [] eventType = << "done" >> ->
            [calls |-> << [cb |-> "onDone", arg |-> data] >>, returned |-> FALSE]
      [] eventType = << "error" >> ->
            [calls |-> << [cb |-> "onError",
                           arg |-> [message |->
                                IF "message" \in DOMAIN data /\ data.message # <<>>
                                THEN data.message ELSE UnknownError]] >>,
             returned |-> FALSE]
      [] OTHER -> [calls |-> <<>>, returned |-> FALSE]

SwitchEvent(eventType, data) ==
    CASE eventType = << "citation" >> ->
            [calls |-> << [cb |-> "onCitation", arg |-> data] >>, returned |-> FALSE]
      [] eventType = << "token" >> ->
            [calls |-> << [cb |-> "onToken",
                           arg |-> [text |-> IF "text" \in DOMAIN data
                                             THEN data.text ELSE Undefined]] >>,
             returned |-> FALSE]
      [] eventType = << "done" >> ->
            [calls |-> << [cb |-> "onDone", arg |-> data] >>, returned |-> TRUE]
      [] eventType = << "error" >> ->
            [calls |-> << [cb |-> "onError",
                           arg |-> [message |->
                                IF "message" \in DOMAIN data /\ data.message # <<>>
                                THEN data.message ELSE UnknownError]] >>,
             returned |-> TRUE]
      [] OTHER -> [calls |-> <<>>, returned |-> FALSE]

\* api.ts 270-305 with the exception of JSON.parse leaving the function.
ProcessEventParseEnds(event) ==
    IF Trim(event) = <<>> THEN [calls |-> <<>>, returned |-> FALSE]
    ELSE LET f == ScanLines(Split(event, << NL >>),
                            [eventType |-> <<>>, eventData |-> <<>>]) IN
         IF f.eventType # <<>> /\ f.eventData # <<>>
         THEN IF JsonParses(f.eventData)
              THEN SwitchEvent(f.eventType, JsonParse(f.eventData))
              ELSE [calls |-> <<>>, returned |-> TRUE]
         ELSE [calls |-> <<>>, returned |-> FALSE]

\* api.ts 270-305: one block of the split.  A blank block, a block without a
\* type or without a payload, and a payload JSON.parse rejects invoke nothing.
ProcessEvent(event) ==
    IF Trim(event) = <<>> THEN [calls |-> <<>>, returned |-> FALSE]
    ELSE LET f == ScanLines(Split(event, << NL >>),
                            [eventType |-> <<>>, eventData |-> <<>>]) IN
         IF f.eventType # <<>> /\ f.eventData # <<>> /\ JsonParses(f.eventData)
         THEN SwitchEvent(f.eventType, JsonParse(f.eventData))
         ELSE [calls |-> <<>>, returned |-> FALSE]

\* api.ts 269-306 with the loop going on after a done or error case.
RECURSIVE DispatchEventsPastReturn(_)
DispatchEventsPastReturn(events) ==
    IF events = <<>> THEN [calls |-> <<>>, returned |-> FALSE]
    ELSE LET r == ProcessEvent(Head(events))
             rest == DispatchEventsPastReturn(Tail(events))
         IN [calls |-> r.calls \o rest.calls, returned |-> r.returned \/ rest.returned]

\* api.ts 269-306: the for loop over the complete blocks of one chunk, left
\* by the return of a done or error case.
RECURSIVE DispatchEvents(_)
DispatchEvents(events) ==
    IF events = <<>> THEN [calls |-> <<>>, returned |-> FALSE]
    ELSE LET r == ProcessEvent(Head(events)) IN
         IF r.returned THEN r
         ELSE LET rest == DispatchEvents(Tail(events)) IN
              [calls |-> r.calls \o rest.calls, returned |-> rest.returned]

\* api.ts 266-267 with the remainder dropped instead of kept.
SplitBufferDropsRest(text) ==
    LET parts == Split(text, Delimiter) IN
    [events |-> SubSeq(parts, 1, Len(parts) - 1), buffer |-> <<>>]

\* api.ts 266-267: buffer.split('\n\n'); the last piece is the incomplete
\* block and stays in the buffer.
SplitBuffer(text) ==
    LET parts == Split(text, Delimiter) IN
    [events |-> SubSeq(parts, 1, Len(parts) - 1), buffer |-> parts[Len(parts)]]

\* api.ts 263-306: one iteration of the read loop on a chunk that arrived.
ProcessChunk(buffer, chunk) ==
    LET sp == SplitBuffer(buffer \o chunk)
        d  == DispatchEvents(sp.events)
    IN [buffer |-> sp.buffer, calls |-> d.calls, returned |-> d.returned]

\* What the server frames: a block is its type and the character of its
\* payload document, written as two lines and closed by a blank line.  A block
\* with the type "" has no type line, one with the document "" no payload line.
Block(type, doc) == [type |-> type, doc |-> doc]
EncodeBlock(b) ==
    (IF b.type = "" THEN <<>> ELSE EventPrefix \o << b.type >>)
    \o (IF b.type = "" \/ b.doc = "" THEN <<>> ELSE << NL >>)
    \o (IF b.doc = "" THEN <<>> ELSE DataPrefix \o << b.doc >>)
    \o Delimiter

RECURSIVE EncodeBlocks(_)
EncodeBlocks(bs) ==
    IF bs = <<>> THEN <<>> ELSE EncodeBlock(Head(bs)) \o EncodeBlocks(Tail(bs))

\* Sequences over S of length 1..n.
RECURSIVE SeqsUpTo(_, _)
SeqsUpTo(S, n) ==
    IF n <= 0 THEN {}
    ELSE { << x >> : x \in S } \cup
         { << x >> \o t : x \in S, t \in SeqsUpTo(S, n - 1) }


\* ------------------------------------------------------------------- state

VARIABLES
    chatKey,              \* App.tsx: key of the mounted ChatInterface
    currentFileId,        \* App.tsx: selected file, the fileId prop ("" is none)
    messages,             \* ChatInterface: committed messages
    input,                \* ChatInterface: text of the input box
    isTyping,             \* ChatInterface: a turn is in progress
    chatMode,             \* ChatInterface: "single" or "global"
    currentResponse,      \* ChatInterface: displayed in-flight text
    currentReferences,    \* ChatInterface: displayed in-flight references
    currentResponseRef,   \* ChatInterface: accumulated text
    currentReferencesRef, \* ChatInterface: accumulated references
    citationIdsRef,       \* ChatInterface: citation ids seen in this turn
    abortRef,             \* ChatInterface: the abort controller, "null" if none
    clearPc,              \* clearChat: "idle", or "awaitClear" at its await
    toast,                \* the last notification shown
    streams,              \* processChatStream invocations that have not ended
    turnLog,              \* callbacks the mounted ChatInterface received this turn
    sendsLeft,            \* sends the user still makes in this run
    tBlocks,              \* transport only: the blocks of the response body
    tPos,                 \* transport only: characters of the body read so far
    tBuffer,              \* transport only: processChatStream's buffer
    tDispatched,          \* transport only: callbacks invoked so far
    tPhase,               \* transport only: "reading", "returned" or "ended"
    references,           \* MarkdownRenderer: the references prop
    fallbackFileId,       \* MarkdownRenderer: the fallbackFileId prop ("" is none)
    rendered,             \* MarkdownRenderer: the last element rendered and its output
    previewImage,         \* MarkdownRenderer: address shown in the preview, <<>> if closed
    navigated,            \* MarkdownRenderer: calls of onCitationClick so far
    cardClicks,           \* MarkdownRenderer: clicks on reference cards so far
    currentFileName,      \* App.tsx: name of the selected file
    currentTotalPages,    \* App.tsx: page count of the selected file
    targetPage,           \* App.tsx: page asked of the panel (0 is none)
    panel,                \* PDFPanel: fileId, fileName, totalPages, currentPage, uploadStatus
    lastCitation,         \* the reference whose card the user clicked last, if no other
                          \* gesture on the file or its pages followed
    uploads,              \* PDFPanel: runs of handleFileUpload that have not ended
    statusCheckInterval,  \* PDFPanel: the polling timer running, <<>> if none
    polls                 \* PDFPanel: getParseStatus requests not yet answered

appVars == << chatKey, currentFileId >>
chatVars == << messages, input, isTyping, chatMode, currentResponse, currentReferences,
               currentResponseRef, currentReferencesRef, citationIdsRef, abortRef,
               clearPc, toast >>
netVars == << streams, turnLog, sendsLeft >>
tVars == << tBlocks, tPos, tBuffer, tDispatched, tPhase >>
mdVars == << references, fallbackFileId, rendered, previewImage, navigated, cardClicks >>
uploadVars == << uploads, statusCheckInterval, polls >>
pdfVars == << currentFileName, currentTotalPages, targetPage, panel, lastCitation, uploadVars >>
vars == << appVars, chatVars, netVars, tVars, mdVars, pdfVars >>

\* ------------------------------------------------- ChatInterface: values

NoFile == ""
Files == { "f1", "f2" }
Inputs == { <<>>, << SP >>, << "q" >>, << SP, "q" >> }
SessionId == "default"

InitialAssistant == << "Hello!" >>
EmptyMarker == << "_empty_" >>
ErrorPrefix == << "Sorry:" >>

WelcomeMessage ==
    [id |-> "welcome", type |-> "assistant", content |-> InitialAssistant,
     references |-> <<>>]

\* A message created by handleSend or one of its callbacks; its id is a
\* timestamp.  references: undefined is the empty list.
Message(type, content, refs) ==
    [id |-> "timestamp", type |-> type, content |-> content, references |-> refs]

\* ChatInterface.tsx 82-86 without the check of the chat mode.
CanSendIgnoresMode(inp, typing, mode, fileId) ==
    IF Len(Trim(inp)) = 0 \/ typing THEN FALSE
    ELSE TRUE

\* ChatInterface.tsx 82-86
CanSend(inp, typing, mode, fileId) ==
    IF Len(Trim(inp)) = 0 \/ typing THEN FALSE
    ELSE IF mode = "single" /\ fileId = NoFile THEN FALSE
    ELSE TRUE

\* ChatInterface.tsx 132 without the test of canSend.
canSendAlways == TRUE

canSend == CanSend(input, isTyping, chatMode, currentFileId)

\* The fields of ChatInterface the stream callbacks read and write.
Session ==
    [messages |-> messages, isTyping |-> isTyping,
     currentResponse |-> currentResponse, currentReferences |-> currentReferences,
     currentResponseRef |-> currentResponseRef,
     currentReferencesRef |-> currentReferencesRef,
     citationIdsRef |-> citationIdsRef, toast |-> toast]

\* ChatInterface.tsx 161-164 with the token put in front.
OnTokenPrepends(c, arg) ==
    [c EXCEPT !.currentResponse = arg.text \o @,
              !.currentResponseRef = arg.text \o @]

\* ChatInterface.tsx 161-164 without the update of the displayed text (162).
OnTokenRefOnly(c, arg) ==
    [c EXCEPT !.currentResponseRef = @ \o arg.text]

\* ChatInterface.tsx 161-164
OnToken(c, arg) ==
    [c EXCEPT !.currentResponse = @ \o arg.text,
              !.currentResponseRef = @ \o arg.text]

\* ChatInterface.tsx 178-187 with the id counted from zero (179).
NewRefFromZero(c, arg) ==
    [id |-> Len(c.currentReferencesRef),
     page |-> IF "page" \in DOMAIN arg THEN arg.page ELSE 0,
     citationId |-> arg.citation_id,
     fileId |-> arg.fileId]

\* ChatInterface.tsx 178-187
NewRef(c, arg) ==
    [id |-> Len(c.currentReferencesRef) + 1,
     page |-> IF "page" \in DOMAIN arg THEN arg.page ELSE 0,
     citationId |-> arg.citation_id,
     fileId |-> arg.fileId]

\* ChatInterface.tsx 166-192 without the check of the seen ids.
OnCitationNoDedup(c, arg) ==
    IF arg.citation_id = "" THEN c
    ELSE [c EXCEPT !.citationIdsRef = @ \cup { arg.citation_id },
                   !.currentReferences = Append(@, NewRef(c, arg)),
                   !.currentReferencesRef = Append(@, NewRef(c, arg))]

\* ChatInterface.tsx 166-192
OnCitation(c, arg) ==
    IF arg.citation_id = "" \/ arg.citation_id \in c.citationIdsRef THEN c
    ELSE [c EXCEPT !.citationIdsRef = @ \cup { arg.citation_id },
                   !.currentReferences = Append(@, NewRef(c, arg)),
                   !.currentReferencesRef = Append(@, NewRef(c, arg))]

\* ChatInterface.tsx 194-219 with the assistant message written over the last
\* message instead of appended.
OnDoneOverwritesLast(c, arg) ==
    LET finalResponse == c.currentResponseRef
        finalRefs == c.currentReferencesRef
        assistantMessage ==
            Message("assistant",
                    IF finalResponse # <<>> THEN finalResponse ELSE EmptyMarker,
                    finalRefs)
    IN [c EXCEPT !.messages = [@ EXCEPT ![Len(@)] = assistantMessage],
                 !.isTyping = FALSE,
                 !.currentResponse = <<>>,
                 !.currentReferences = <<>>,
                 !.currentResponseRef = <<>>,
                 !.currentReferencesRef = <<>>,
                 !.citationIdsRef = {},
                 !.toast = IF "used_retrieval" \in DOMAIN arg /\ arg.used_retrieval
                           THEN "grounded" ELSE @]

\* ChatInterface.tsx 194-219 without the marker of an empty response (203).
OnDoneNoMarker(c, arg) ==
    LET finalResponse == c.currentResponseRef
        finalRefs == c.currentReferencesRef
        assistantMessage == Message("assistant", finalResponse, finalRefs)
    IN [c EXCEPT !.messages = Append(@, assistantMessage),
                 !.isTyping = FALSE,
                 !.currentResponse = <<>>,
                 !.currentReferences = <<>>,
                 !.currentResponseRef = <<>>,
                 !.currentReferencesRef = <<>>,
                 !.citationIdsRef = {},
                 !.toast = IF "used_retrieval" \in DOMAIN arg /\ arg.used_retrieval
                           THEN "grounded" ELSE @]

\* ChatInterface.tsx 194-219 with the notification shown whatever the
\* meta of the done event says (215).
OnDoneAlwaysGrounded(c, arg) ==
    LET finalResponse == c.currentResponseRef
        finalRefs == c.currentReferencesRef
        assistantMessage ==
            Message("assistant",
                    IF finalResponse # <<>> THEN finalResponse ELSE EmptyMarker,
                    finalRefs)
    IN [c EXCEPT !.messages = Append(@, assistantMessage),
                 !.isTyping = FALSE,
                 !.currentResponse = <<>>,
                 !.currentReferences = <<>>,
                 !.currentResponseRef = <<>>,
                 !.currentReferencesRef = <<>>,
                 !.citationIdsRef = {},
                 !.toast = "grounded"]

\* ChatInterface.tsx 194-219
OnDone(c, arg) ==
    LET finalResponse == c.currentResponseRef
        finalRefs == c.currentReferencesRef
        assistantMessage ==
            Message("assistant",
                    IF finalResponse # <<>> THEN finalResponse ELSE EmptyMarker,
                    finalRefs)
    IN [c EXCEPT !.messages = Append(@, assistantMessage),
                 !.isTyping = FALSE,
                 !.currentResponse = <<>>,
                 !.currentReferences = <<>>,
                 !.currentResponseRef = <<>>,
                 !.currentReferencesRef = <<>>,
                 !.citationIdsRef = {},
                 !.toast = IF "used_retrieval" \in DOMAIN arg /\ arg.used_retrieval
                           THEN "grounded" ELSE @]

\* ChatInterface.tsx 221-238 without the error message.
OnErrorNoMessage(c, arg) ==
    [c EXCEPT !.isTyping = FALSE,
              !.currentResponse = <<>>,
              !.currentReferences = <<>>,
              !.currentResponseRef = <<>>,
              !.currentReferencesRef = <<>>,
              !.citationIdsRef = {},
              !.toast = "failedResponse"]

\* ChatInterface.tsx 221-238 leaving the accumulated text in place.
OnErrorKeepsPending(c, arg) ==
    [c EXCEPT !.isTyping = FALSE,
              !.currentReferences = <<>>,
              !.currentReferencesRef = <<>>,
              !.citationIdsRef = {},
              !.messages = Append(@, Message("assistant", ErrorPrefix \o arg.message, <<>>)),
              !.toast = "failedResponse"]

\* ChatInterface.tsx 221-238 with the accumulated text and references put
\* into the message.
OnErrorCommitsPending(c, arg) ==
    [c EXCEPT !.isTyping = FALSE,
              !.currentResponse = <<>>,
              !.currentReferences = <<>>,
              !.currentResponseRef = <<>>,
              !.currentReferencesRef = <<>>,
              !.citationIdsRef = {},
              !.messages = Append(@, Message("assistant",
                                             ErrorPrefix \o arg.message \o c.currentResponseRef,
                                             c.currentReferencesRef)),
              !.toast = "failedResponse"]

\* ChatInterface.tsx 221-238
OnError(c, arg) ==
    [c EXCEPT !.isTyping = FALSE,
              !.currentResponse = <<>>,
              !.currentReferences = <<>>,
              !.currentResponseRef = <<>>,
              !.currentReferencesRef = <<>>,
              !.citationIdsRef = {},
              !.messages = Append(@, Message("assistant", ErrorPrefix \o arg.message, <<>>)),
              !.toast = "failedResponse"]

\* The callback handleSend passed for this call, applied.
ApplyCall(c, call) ==
    CASE call.cb = "onToken" -> OnToken(c, call.arg)
      [] call.cb = "onCitation" -> OnCitation(c, call.arg)
      [] call.cb = "onDone" -> OnDone(c, call.arg)
      [] call.cb = "onError" -> OnError(c, call.arg)

RECURSIVE ApplyCalls(_, _)
ApplyCalls(c, calls) ==
    IF calls = <<>> THEN c ELSE ApplyCalls(ApplyCall(c, Head(calls)), Tail(calls))

\* ------------------------------------------------------------- PDFPanel

\* The library: the name and pageCount of each file the sidebar lists
\* (FileSidebar: onFileSelect(file.id, file.name, file.pageCount || 0)).
FileName(f) == IF f = "f1" THEN "f1.pdf" ELSE "f2.pdf"
PageCount(f) == IF f = "f1" THEN 2 ELSE 3
LoadingName == "Loading..."
NoCitation == [id |-> 0, citationId |-> "", fileId |-> ""]

\* The props App passes to PDFPanel (App.tsx 113-119).
PanelProps(id, name, pages, page) ==
    [activeFileId |-> id, activeFileName |-> name, activeTotalPages |-> pages,
     jumptoPage |-> page]

\* PDFPanel.tsx 34-41: the state of a panel that has just mounted.
IdlePanel ==
    [fileId |-> "", fileName |-> "", totalPages |-> 0, currentPage |-> 1,
     uploadStatus |-> "idle"]

\* PDFPanel.tsx 46-54: the body of the effect that follows the active file.
\* `seen` is the state of the render the effect closed over, `p` the state
\* with the updates queued so far.
SyncActiveFile(seen, p, props) ==
    IF props.activeFileId # "" /\ props.activeFileId # seen.fileId
    THEN [p EXCEPT !.fileId = props.activeFileId,
                   !.fileName = props.activeFileName,
                   !.totalPages = props.activeTotalPages,
                   !.uploadStatus = "ready",
                   !.currentPage = 1]
    ELSE p

\* PDFPanel.tsx 57-61: the body of the effect that jumps to the page asked.
JumpToPage(seen, p, props) ==
    IF props.jumptoPage > 0 /\ props.jumptoPage <= seen.totalPages
    THEN [p EXCEPT !.currentPage = props.jumptoPage]
    ELSE p

\* The effects of PDFPanel after App re-renders it with new props: each
\* effect runs only if one of its dependencies changed (PDFPanel.tsx 54, 61),
\* in the order of declaration, reading the state of the render it belongs
\* to; the state they set causes a second render, after which only the jump
\* effect can have a changed dependency (totalPages).
RunEffects(p, old, new) ==
    LET fileChanged == << old.activeFileId, old.activeFileName, old.activeTotalPages >>
                         # << new.activeFileId, new.activeFileName, new.activeTotalPages >>
        s1 == IF fileChanged THEN SyncActiveFile(p, p, new) ELSE p
        s2 == IF old.jumptoPage # new.jumptoPage THEN JumpToPage(p, s1, new) ELSE s1
    IN IF s2.totalPages # p.totalPages THEN JumpToPage(s2, s2, new) ELSE s2

\* The effects of PDFPanel after a handler of the panel has set its state
\* from `before` to `after` and, through onFileReady, App's props from `old`
\* to `new`, all in one batch.
Rerender(before, after, old, new) ==
    LET fileChanged == << old.activeFileId, old.activeFileName, old.activeTotalPages >>
                         # << new.activeFileId, new.activeFileName, new.activeTotalPages >>
        jumpChanged == old.jumptoPage # new.jumptoPage \/ before.totalPages # after.totalPages
        s1 == IF fileChanged THEN SyncActiveFile(after, after, new) ELSE after
        s2 == IF jumpChanged THEN JumpToPage(after, s1, new) ELSE s1
    IN IF s2.totalPages # after.totalPages THEN JumpToPage(s2, s2, new) ELSE s2

\* What the user can choose in the file dialog, and what the server answers
\* to an upload: the id and the page count of the stored file.
PdfFile == [name |-> "u.pdf", pdf |-> TRUE]
TextFile == [name |-> "n.txt", pdf |-> FALSE]
ChosenFiles == { PdfFile, TextFile }
UploadedFileId == "u1"
UploadedPages == 3

\* PDFPanel.tsx 108-109: the file of the demonstration mode.
MockFileId == "demo"
MockPages == 8

\* How a request of the panel can end: with an answer, with the TypeError of
\* a fetch that found no server, or with another error (api.ts 77-120).
RequestOutcomes == { "ok", "failedToFetch", "error" }

\* What getParseStatus can answer (PDFPanel.tsx 153-174).
StatusOutcomes == { "processing", "ready", "error", "throw" }


\* ---------------------------------------------------------------- actions

\* The state of a ChatInterface that has just mounted (useState initial
\* values, then the effect on fileId, ChatInterface.tsx 50-76).
MountedChatMode(fileId) == IF fileId = NoFile THEN "global" ELSE "single"

Mount ==
    /\ messages' = << WelcomeMessage >>
    /\ input' = <<>>
    /\ isTyping' = FALSE
    /\ chatMode' = MountedChatMode(currentFileId')
    /\ currentResponse' = <<>>
    /\ currentReferences' = <<>>
    /\ currentResponseRef' = <<>>
    /\ currentReferencesRef' = <<>>
    /\ citationIdsRef' = {}
    /\ abortRef' = "null"
    /\ clearPc' = "idle"

\* abortRef.current?.abort() run by the instance with key k.  No statement
\* assigns abortRef.current, so the call has no target; abortRequested records
\* on each of the instance's invocations that the statement ran.
AbortCurrent(strs, k) ==
    IF abortRef = "null"
    THEN [i \in DOMAIN strs |->
            IF strs[i].owner = k THEN [strs[i] EXCEPT !.abortRequested = TRUE]
            ELSE strs[i]]
    ELSE SelectSeq(strs, LAMBDA st : st.owner # k)

Remove(seq, i) == SubSeq(seq, 1, i - 1) \o SubSeq(seq, i + 1, Len(seq))

\* ChatInterface.tsx 436 (the input box is disabled while a turn is in progress)
SetInput(v) ==
    /\ ~isTyping
    /\ v # input
    /\ input' = v
    /\ UNCHANGED << appVars, messages, isTyping, chatMode, currentResponse,
                    currentReferences, currentResponseRef, currentReferencesRef,
                    citationIdsRef, abortRef, clearPc, toast, netVars, tVars, mdVars, pdfVars >>

\* ChatInterface.tsx 325
SetChatMode(m) ==
    /\ m # chatMode
    /\ chatMode' = m
    /\ UNCHANGED << appVars, messages, input, isTyping, currentResponse,
                    currentReferences, currentResponseRef, currentReferencesRef,
                    citationIdsRef, abortRef, clearPc, toast, netVars, tVars, mdVars, pdfVars >>

\* App.tsx 25-30 (a click on a file of the sidebar, the selected one
\* included), then the effect of ChatInterface.tsx 58-64 if the fileId
\* changed, and the effects of PDFPanel.tsx 46-61.
SelectFile(f) ==
    /\ currentFileId' = f
    /\ currentFileName' = FileName(f)
    /\ currentTotalPages' = PageCount(f)
    /\ targetPage' = 0
    /\ chatMode' = IF f # currentFileId THEN MountedChatMode(f) ELSE chatMode
    /\ panel' = RunEffects(panel,
                    PanelProps(currentFileId, currentFileName, currentTotalPages, targetPage),
                    PanelProps(f, FileName(f), PageCount(f), 0))
    /\ lastCitation' = NoCitation
    /\ UNCHANGED << chatKey, messages, input, isTyping, currentResponse,
                    currentReferences, currentResponseRef, currentReferencesRef,
                    citationIdsRef, abortRef, clearPc, toast, netVars, tVars, mdVars,
                    uploadVars >>

\* ChatInterface.tsx 240 with the file passed in either mode.
RequestAlwaysScoped(userText) ==
    [message |-> userText, sessionId |-> SessionId, pdfFileId |-> currentFileId]

\* ChatInterface.tsx 240 and api.ts 240-244: the body of the request
Request(userText) ==
    [message |-> userText, sessionId |-> SessionId,
     pdfFileId |-> IF chatMode = "single" THEN currentFileId ELSE NoFile]

\* ChatInterface.tsx 131-158 without the user message (137-144).
HandleSendNoUserMessage ==
    IF ~canSend THEN UNCHANGED vars
    ELSE /\ sendsLeft > 0
         /\ input' = <<>>
         /\ isTyping' = TRUE
         /\ currentResponse' = <<>>
         /\ currentReferences' = <<>>
         /\ currentResponseRef' = <<>>
         /\ currentReferencesRef' = <<>>
         /\ citationIdsRef' = {}
         /\ streams' = Append(AbortCurrent(streams, chatKey),
                              [owner |-> chatKey, phase |-> "fetching", buffer |-> <<>>,
                               req |-> Request(input), words |-> <<>>,
                               abortRequested |-> FALSE])
         /\ turnLog' = <<>>
         /\ sendsLeft' = sendsLeft - 1
         /\ UNCHANGED << appVars, messages, chatMode, abortRef, clearPc, toast, tVars,
                         mdVars, pdfVars >>

\* ChatInterface.tsx 131-158 and api.ts 234: up to the await of fetch
HandleSend ==
    IF ~canSend THEN UNCHANGED vars
    ELSE /\ sendsLeft > 0
         /\ messages' = Append(messages, Message("user", input, <<>>))
         /\ input' = <<>>
         /\ isTyping' = TRUE
         /\ currentResponse' = <<>>
         /\ currentReferences' = <<>>
         /\ currentResponseRef' = <<>>
         /\ currentReferencesRef' = <<>>
         /\ citationIdsRef' = {}
         /\ streams' = Append(AbortCurrent(streams, chatKey),
                              [owner |-> chatKey, phase |-> "fetching", buffer |-> <<>>,
                               req |-> Request(input), words |-> <<>>,
                               abortRequested |-> FALSE])
         /\ turnLog' = <<>>
         /\ sendsLeft' = sendsLeft - 1
         /\ UNCHANGED << appVars, chatMode, abortRef, clearPc, toast, tVars, mdVars, pdfVars >>

\* The callbacks of invocation i with every instance treated as the mounted
\* one.
DeliverToAny(i, calls, strs) ==
    /\ streams' = strs
    /\ LET c == ApplyCalls(Session, calls) IN
       /\ messages' = c.messages
       /\ isTyping' = c.isTyping
       /\ currentResponse' = c.currentResponse
       /\ currentReferences' = c.currentReferences
       /\ currentResponseRef' = c.currentResponseRef
       /\ currentReferencesRef' = c.currentReferencesRef
       /\ citationIdsRef' = c.citationIdsRef
       /\ toast' = c.toast
       /\ turnLog' = turnLog \o calls
       /\ UNCHANGED << input, chatMode, abortRef, clearPc >>
    /\ UNCHANGED << appVars, sendsLeft, tVars, mdVars, pdfVars >>

\* The callbacks of invocation i run: on the mounted ChatInterface they change
\* its state; the instance a remount replaced is no longer displayed, React
\* drops its state updates and nothing reads its refs, but the notifications
\* its callbacks show (ChatInterface.tsx 215, 237) are those of the page.
Deliver(i, calls, strs) ==
    /\ streams' = strs
    /\ LET c == ApplyCalls(Session, calls) IN
       IF streams[i].owner = chatKey
       THEN /\ messages' = c.messages
            /\ isTyping' = c.isTyping
            /\ currentResponse' = c.currentResponse
            /\ currentReferences' = c.currentReferences
            /\ currentResponseRef' = c.currentResponseRef
            /\ currentReferencesRef' = c.currentReferencesRef
            /\ citationIdsRef' = c.citationIdsRef
            /\ toast' = c.toast
            /\ turnLog' = turnLog \o calls
            /\ UNCHANGED << input, chatMode, abortRef, clearPc >>
       ELSE /\ toast' = c.toast
            /\ UNCHANGED << messages, input, isTyping, chatMode, currentResponse,
                            currentReferences, currentResponseRef, currentReferencesRef,
                            citationIdsRef, abortRef, clearPc, turnLog >>
    /\ UNCHANGED << appVars, sendsLeft, tVars, mdVars, pdfVars >>

DemoWords == << << "I", SP >>, << "demo", SP >> >>
RequestFailed == << "Chat request failed" >>
NetworkError == << "network error" >>

\* api.ts 234-254 and 308-353: what the await of fetch resumes with
FetchResponds(i, outcome) ==
    /\ i \in DOMAIN streams
    /\ streams[i].phase = "fetching"
    /\ CASE outcome = "ok" ->
              Deliver(i, <<>>, [streams EXCEPT ![i].phase = "reading"])
         [] outcome = "notOk" ->
              Deliver(i, << [cb |-> "onError", arg |-> [message |-> RequestFailed]] >>,
                      Remove(streams, i))
         [] outcome = "failedToFetch" ->
              Deliver(i, <<>>, [streams EXCEPT ![i].phase = "demo", ![i].words = DemoWords])
         [] outcome = "rejected" ->
              Deliver(i, << [cb |-> "onError", arg |-> [message |-> NetworkError]] >>,
                      Remove(streams, i))

\* api.ts 339-347 ending the simulated response with onError.
DemoTickEndsInError(i) ==
    /\ i \in DOMAIN streams
    /\ streams[i].phase = "demo"
    /\ IF streams[i].words # <<>>
       THEN Deliver(i, << [cb |-> "onToken", arg |-> [text |-> Head(streams[i].words)]] >>,
                    [streams EXCEPT ![i].words = Tail(@)])
       ELSE Deliver(i, << [cb |-> "onError", arg |-> [message |-> NetworkError]] >>,
                    Remove(streams, i))

\* api.ts 339-347: one tick of the interval of the simulated response
DemoTick(i) ==
    /\ i \in DOMAIN streams
    /\ streams[i].phase = "demo"
    /\ IF streams[i].words # <<>>
       THEN Deliver(i, << [cb |-> "onToken", arg |-> [text |-> Head(streams[i].words)]] >>,
                    [streams EXCEPT ![i].words = Tail(@)])
       ELSE Deliver(i, << [cb |-> "onDone", arg |-> [used_retrieval |-> FALSE]] >>,
                    Remove(streams, i))

\* Blocks the server sends in a turn: all of them in the specification of one
\* turn, a few in the specification of the whole session.
Blocks ==
    { Block("token", "ja"), Block("token", "jb"),
      Block("citation", "jc1"), Block("citation", "jc1x"),
      Block("citation", "jc2"), Block("citation", "jc0"),
      Block("done", "jdT"), Block("done", "jdF"),
      Block("error", "je") }
SessionBlocks ==
    { Block("token", "ja"), Block("citation", "jc1"),
      Block("done", "jdT"), Block("error", "je") }

TurnChunks == SeqsUpTo(Blocks, MaxChunkBlocks)
SessionChunks == SeqsUpTo(SessionBlocks, MaxChunkBlocks)

\* ProcessChunk on each chunk that starts at a block boundary, computed once.
AlignedResult == [bs \in TurnChunks |-> ProcessChunk(<<>>, EncodeBlocks(bs))]

ChunkResult(buffer, bs) ==
    IF buffer = <<>> THEN AlignedResult[bs] ELSE ProcessChunk(buffer, EncodeBlocks(bs))

\* The chunk keeps the turn of the mounted ChatInterface within max blocks.
Room(i, bs, max) ==
    (i \in DOMAIN streams /\ streams[i].owner = chatKey) => Len(turnLog) + Len(bs) <= max

\* api.ts 259-306: reader.read() resolves with a chunk
ReadChunk(i, bs) ==
    /\ i \in DOMAIN streams
    /\ streams[i].phase = "reading"
    /\ LET r == ChunkResult(streams[i].buffer, bs) IN
       Deliver(i, r.calls,
               IF r.returned THEN Remove(streams, i)
               ELSE [streams EXCEPT ![i].buffer = r.buffer])

\* api.ts 260-261: reader.read() resolves with done; the loop is left and the
\* function returns
ReadEnd(i) ==
    /\ i \in DOMAIN streams
    /\ streams[i].phase = "reading"
    /\ Deliver(i, <<>>, Remove(streams, i))

\* api.ts 260 and 308-353: reader.read() rejects
ReadFails(i) ==
    /\ i \in DOMAIN streams
    /\ streams[i].phase = "reading"
    /\ Deliver(i, << [cb |-> "onError", arg |-> [message |-> NetworkError]] >>,
               Remove(streams, i))

\* ChatInterface.tsx 262-265: clearChat up to the await of clearSession
ClearChat ==
    /\ clearPc = "idle"
    /\ chatKey < MaxClears
    /\ clearPc' = "awaitClear"
    /\ streams' = AbortCurrent(streams, chatKey)
    /\ UNCHANGED << appVars, messages, input, isTyping, chatMode, currentResponse,
                    currentReferences, currentResponseRef, currentReferencesRef,
                    citationIdsRef, abortRef, toast, turnLog, sendsLeft, tVars, mdVars, pdfVars >>

\* ChatInterface.tsx 266-295 with App.tsx 15-17: clearSession settles.  A
\* local reset ends in onClearChat, which changes the key of ChatInterface:
\* the instance unmounts (its cleanup, 125-129, runs the abort statement) and a
\* new one mounts.
ClearResponds(outcome) ==
    /\ clearPc = "awaitClear"
    /\ IF outcome \in { "ok", "failedToFetch" }
       THEN /\ chatKey' = chatKey + 1
            /\ UNCHANGED currentFileId
            /\ Mount
            /\ toast' = IF outcome = "ok" THEN "cleared" ELSE "clearedLocal"
            /\ streams' = AbortCurrent(streams, chatKey)
            /\ turnLog' = <<>>
            /\ UNCHANGED << sendsLeft, tVars, mdVars, pdfVars >>
       ELSE /\ clearPc' = "idle"
            /\ toast' = "clearFailed"
            /\ UNCHANGED << appVars, messages, input, isTyping, chatMode,
                            currentResponse, currentReferences, currentResponseRef,
                            currentReferencesRef, citationIdsRef, abortRef,
                            netVars, tVars, mdVars, pdfVars >>

ClearOutcomes == { "ok", "failedToFetch", "httpError" }
FetchOutcomes == { "ok", "notOk", "failedToFetch", "rejected" }

\* MarkdownRenderer before any element of a text is rendered: the element and
\* what it rendered as.
NothingRendered == [tag |-> "none", url |-> <<>>, el |-> [kind |-> "none", url |-> <<>>]]

\* No message is being rendered.
MdInitIdle ==
    /\ references = <<>>
    /\ fallbackFileId = ""
    /\ rendered = NothingRendered
    /\ previewImage = <<>>
    /\ navigated = <<>>
    /\ cardClicks = 0

\* App.tsx 11-13 and a PDFPanel that has just mounted.
PdfInitIdle ==
    /\ currentFileName = ""
    /\ currentTotalPages = 0
    /\ targetPage = 0
    /\ panel = IdlePanel
    /\ lastCitation = NoCitation
    /\ uploads = <<>>
    /\ statusCheckInterval = <<>>
    /\ polls = <<>>

TInitIdle ==
    /\ tBlocks = <<>>
    /\ tPos = 0
    /\ tBuffer = <<>>
    /\ tDispatched = <<>>
    /\ tPhase = "ended"

Init ==
    /\ chatKey = 0
    /\ currentFileId = NoFile
    /\ messages = << WelcomeMessage >>
    /\ input = <<>>
    /\ isTyping = FALSE
    /\ chatMode = MountedChatMode(NoFile)
    /\ currentResponse = <<>>
    /\ currentReferences = <<>>
    /\ currentResponseRef = <<>>
    /\ currentReferencesRef = <<>>
    /\ citationIdsRef = {}
    /\ abortRef = "null"
    /\ clearPc = "idle"
    /\ toast = "none"
    /\ streams = <<>>
    /\ turnLog = <<>>
    /\ sendsLeft = MaxSends
    /\ TInitIdle
    /\ MdInitIdle
    /\ PdfInitIdle

\* The session: sends, the turns they start, clears and the remounts that
\* follow them, with the file selection left alone.
Next ==
    \/ \E v \in { <<>>, << "q" >> } : SetInput(v)
    \/ HandleSend
    \/ \E i \in 1..MaxSends, o \in { "ok", "notOk" } : FetchResponds(i, o)
    \/ \E i \in 1..MaxSends, bs \in SessionChunks :
          Room(i, bs, MaxSessionEvents) /\ ReadChunk(i, bs)
    \/ \E i \in 1..MaxSends : ReadEnd(i)
    \/ ClearChat
    \/ \E o \in ClearOutcomes : ClearResponds(o)

Spec == Init /\ [][Next]_vars

\* One turn of one ChatInterface: every block the server can send and every
\* way the request can fail.
InitTurn ==
    /\ chatKey = 0
    /\ currentFileId = NoFile
    /\ messages = << WelcomeMessage >>
    /\ input = <<>>
    /\ isTyping = FALSE
    /\ chatMode = MountedChatMode(NoFile)
    /\ currentResponse = <<>>
    /\ currentReferences = <<>>
    /\ currentResponseRef = <<>>
    /\ currentReferencesRef = <<>>
    /\ citationIdsRef = {}
    /\ abortRef = "null"
    /\ clearPc = "idle"
    /\ toast = "none"
    /\ streams = <<>>
    /\ turnLog = <<>>
    /\ sendsLeft = 1
    /\ TInitIdle
    /\ MdInitIdle
    /\ PdfInitIdle

NextTurn ==
    \/ \E v \in { <<>>, << "q" >> } : SetInput(v)
    \/ HandleSend
    \/ \E o \in FetchOutcomes : FetchResponds(1, o)
    \/ DemoTick(1)
    \/ \E bs \in TurnChunks : Room(1, bs, MaxTurnEvents) /\ ReadChunk(1, bs)
    \/ ReadEnd(1)
    \/ ReadFails(1)

SpecTurn == InitTurn /\ [][NextTurn]_vars

\* The same turn with the interval of the simulated response firing as long
\* as it is set (api.ts 339-347: setInterval, cleared only after onDone).
SpecDemo == InitTurn /\ [][NextTurn]_vars /\ WF_vars(DemoTick(1))

\* One turn of one ChatInterface while the user edits the input, switches the
\* chat mode and selects a file.
NextMode ==
    \/ \E v \in Inputs : SetInput(v)
    \/ \E m \in { "single", "global" } : SetChatMode(m)
    \/ \E f \in Files : SelectFile(f)
    \/ HandleSend
    \/ \E o \in { "ok", "notOk" } : FetchResponds(1, o)
    \/ \E bs \in SessionChunks : Room(1, bs, MaxSessionEvents) /\ ReadChunk(1, bs)
    \/ ReadEnd(1)

SpecMode == InitTurn /\ [][NextMode]_vars

\* ------------------------------------------------ the transport on its own

\* processChatStream reading one response body, cut into chunks anywhere, with
\* callbacks that only record that they were invoked.
TransportBlocks ==
    { Block("token", "ja"), Block("citation", "jc1"),
      Block("done", "jdT"), Block("error", "je"),
      Block("token", "bad"), Block("ping", "ja"),
      Block("", "ja"), Block("token", "") }

Body == EncodeBlocks(tBlocks)

InitTransport ==
    /\ chatKey = 0
    /\ currentFileId = NoFile
    /\ messages = << WelcomeMessage >>
    /\ input = <<>>
    /\ isTyping = FALSE
    /\ chatMode = MountedChatMode(NoFile)
    /\ currentResponse = <<>>
    /\ currentReferences = <<>>
    /\ currentResponseRef = <<>>
    /\ currentReferencesRef = <<>>
    /\ citationIdsRef = {}
    /\ abortRef = "null"
    /\ clearPc = "idle"
    /\ toast = "none"
    /\ streams = <<>>
    /\ turnLog = <<>>
    /\ sendsLeft = 0
    /\ tBlocks \in SeqsUpTo(TransportBlocks, MaxStreamBlocks)
    /\ tPos = 0
    /\ tBuffer = <<>>
    /\ tDispatched = <<>>
    /\ tPhase = "reading"
    /\ MdInitIdle
    /\ PdfInitIdle

\* api.ts 259-306: reader.read() resolves with the next n characters
TransportRead(n) ==
    /\ tPhase = "reading"
    /\ tPos + n <= Len(Body)
    /\ LET r == ProcessChunk(tBuffer, SubSeq(Body, tPos + 1, tPos + n)) IN
       /\ tPos' = tPos + n
       /\ tBuffer' = r.buffer
       /\ tDispatched' = tDispatched \o r.calls
       /\ tPhase' = IF r.returned THEN "returned" ELSE "reading"
    /\ UNCHANGED << appVars, chatVars, netVars, tBlocks, mdVars, pdfVars >>

\* api.ts 260-261: reader.read() resolves with done at the end of the body
TransportEnd ==
    /\ tPhase = "reading"
    /\ tPos = Len(Body)
    /\ tPhase' = "ended"
    /\ UNCHANGED << appVars, chatVars, netVars, tBlocks, tPos, tBuffer, tDispatched, mdVars, pdfVars >>

MaxBodyLen == MaxStreamBlocks * Len(EncodeBlock(Block("token", "ja")))

NextTransport ==
    \/ \E n \in 1..MaxBodyLen : TransportRead(n)
    \/ TransportEnd

SpecTransport == InitTransport /\ [][NextTransport]_vars


\* ------------------------------------------- MarkdownRenderer.tsx

\* Addresses are sequences of the pieces the code looks at: "/" is a piece of
\* its own, so are "http", "s", "://", a scheme with its colon, "images",
\* "page" and each digit.
Slash == "/"
Digits == { "0", "2", "5", "9" }
DigitValue(d) == CASE d = "0" -> 0 [] d = "2" -> 2 [] d = "5" -> 5 [] d = "9" -> 9
PageWords == { "page", "PAGE" }

\* String.prototype.includes
Includes(s, p) == \E i \in 1..(Len(s) - Len(p) + 1) : SubSeq(s, i, i + Len(p) - 1) = p

\* MarkdownRenderer.tsx 12-13: API_BASE and API_HOST
ApiBase == << "http", "://", "localhost:8000", Slash, "api", Slash, "v1" >>
ApiHost == << "http", "://", "localhost:8000" >>

\* MarkdownRenderer.tsx 44-49
ToAbsoluteApiUrl(src) ==
    IF src = <<>> THEN <<>>
    ELSE IF StartsWith(src, << "http", "://" >>) \/ StartsWith(src, << "http", "s", "://" >>)
    THEN src
    ELSE IF StartsWith(src, << Slash, "api", Slash >>) THEN ApiHost \o src
    ELSE src

\* encodeURIComponent on the pieces: a slash and a blank are escaped.
EncodeURIComponent(s) ==
    [k \in 1..Len(s) |-> CASE s[k] = Slash -> "%2F" [] s[k] = SP -> "%20" [] OTHER -> s[k]]

\* src.split("/").pop()
Filename(src) == LET parts == Split(src, << Slash >>) IN parts[Len(parts)]

\* MarkdownRenderer.tsx 293-294: filename.match(/page(\d+)/i) and parseInt
RECURSIVE DigitRun(_, _)
DigitRun(f, i) ==
    IF i <= Len(f) /\ f[i] \in Digits THEN << f[i] >> \o DigitRun(f, i + 1) ELSE <<>>

RECURSIVE ParseInt(_, _)
ParseInt(ds, acc) ==
    IF ds = <<>> THEN acc ELSE ParseInt(Tail(ds), 10 * acc + DigitValue(Head(ds)))

ImgPage(filename) ==
    LET starts == { i \in 1..(Len(filename) - 1) :
                       filename[i] \in PageWords /\ filename[i + 1] \in Digits }
    IN IF starts = {} THEN [found |-> FALSE, page |-> 0]
       ELSE LET i == CHOOSE x \in starts : \A y \in starts : x <= y
            IN [found |-> TRUE, page |-> ParseInt(DigitRun(filename, i + 1), 0)]

\* references.find(r => r.fileId): a missing fileId is the empty string.
HasFileId(r) == r.fileId # ""
HasPage(r, p) == "page" \in DOMAIN r /\ r.page = p

\* Array.prototype.find over the positions a predicate selects: the first of
\* them, 0 if there is none.
First(S) == IF S = {} THEN 0 ELSE CHOOSE x \in S : \A y \in S : x <= y

\* MarkdownRenderer.tsx 297-315 with the references tried before the fallback.
TargetFileIdRefsFirst(imgPage, refs, fallback) ==
    LET m == First({ k \in 1..Len(refs) : imgPage.found /\ HasPage(refs[k], imgPage.page) /\ HasFileId(refs[k]) })
        a == First({ k \in 1..Len(refs) : HasFileId(refs[k]) })
    IN IF m # 0 THEN refs[m].fileId
       ELSE IF a # 0 THEN refs[a].fileId
       ELSE fallback

\* MarkdownRenderer.tsx 297-315 without the match on the page.
TargetFileIdIgnoresPage(imgPage, refs, fallback) ==
    LET a == First({ k \in 1..Len(refs) : HasFileId(refs[k]) })
    IN IF fallback = "" /\ a # 0 THEN refs[a].fileId ELSE fallback

\* MarkdownRenderer.tsx 297-315 without the first reference that has a fileId.
TargetFileIdNoAnyRef(imgPage, refs, fallback) ==
    LET m == First({ k \in 1..Len(refs) : imgPage.found /\ HasPage(refs[k], imgPage.page) /\ HasFileId(refs[k]) })
    IN IF m # 0 THEN refs[m].fileId ELSE fallback

\* MarkdownRenderer.tsx 297-315: targetFileId starts as fallbackFileId, is
\* replaced by the fileId of the first reference of the image's page, and, if
\* still empty, by the fileId of the first reference that has one.
TargetFileId(imgPage, refs, fallback) ==
    LET m == First({ k \in 1..Len(refs) : imgPage.found /\ HasPage(refs[k], imgPage.page) /\ HasFileId(refs[k]) })
        a == First({ k \in 1..Len(refs) : HasFileId(refs[k]) })
        matched == IF m # 0 THEN refs[m].fileId ELSE fallback
    IN IF matched = "" /\ a # 0 THEN refs[a].fileId ELSE matched

\* MarkdownRenderer.tsx 319: the address of an image of a file, as
\* ImgComponent writes it (nothing is escaped).
AssetUrl(fileId, filename) ==
    ApiBase \o << Slash, "pdf", Slash, "images", "?fileId=", fileId, "&imagePath=" >> \o filename

\* MarkdownRenderer.tsx 277-324: fixedSrc; <<>> is the empty string.
FixedSrc(src, refs, fallback) ==
    IF src = <<>> THEN <<>>
    ELSE IF StartsWith(src, << "http" >>) \/ StartsWith(src, << Slash, "api", Slash >>)
    THEN ToAbsoluteApiUrl(src)
    ELSE IF Includes(src, << "images", Slash >>)
    THEN LET filename == Filename(src) IN
         IF filename = <<>> THEN <<>>
         ELSE LET targetFileId == TargetFileId(ImgPage(filename), refs, fallback) IN
              IF targetFileId # "" THEN AssetUrl(targetFileId, filename) ELSE <<>>
    ELSE <<>>

\* MarkdownRenderer.tsx 243-249: imageFileId
ImageFileId(refs, fallback) ==
    LET a == First({ k \in 1..Len(refs) : HasFileId(refs[k]) })
    IN IF a # 0 THEN refs[a].fileId ELSE fallback

\* An element of the message text: a markdown image, a markdown link or an
\* HTML img tag, with its address.
Element(kind, url) == [kind |-> kind, url |-> url]

\* MarkdownRenderer.tsx 254-272: sanitizedContent.  An HTML img tag is
\* removed; a markdown image whose address is ./images/ and something more is
\* rewritten to the address of that file name under imageFileId.
SanitizedContent(el, refs, fallback) ==
    IF el.kind = "htmlimg" THEN Element("none", <<>>)
    ELSE IF /\ el.kind = "mdimg"
            /\ ImageFileId(refs, fallback) # ""
            /\ StartsWith(el.url, << ".", Slash, "images", Slash >>)
            /\ Len(el.url) > 4
    THEN Element("mdimg",
                 ApiBase \o << Slash, "pdf", Slash, "images", "?fileId=" >>
                 \o EncodeURIComponent(<< ImageFileId(refs, fallback) >>)
                 \o << "&imagePath=" >> \o EncodeURIComponent(Filename(el.url)))
    ELSE el

\* The scheme an address starts with, "" for an address without one.
Scheme(url) ==
    IF url = <<>> THEN ""
    ELSE IF StartsWith(url, << "http", "://" >>) THEN "http"
    ELSE IF StartsWith(url, << "http", "s", "://" >>) THEN "https"
    ELSE CASE url[1] = "data:" -> "data"
           [] url[1] = "blob:" -> "blob"
           [] url[1] = "mailto:" -> "mailto"
           [] url[1] = "tel:" -> "tel"
           [] url[1] = "javascript:" -> "javascript"
           [] url[1] = "ftp:" -> "ftp"
           [] OTHER -> ""

\* MarkdownRenderer.tsx 36-40: sanitizeSchema.protocols
SrcProtocols == { "http", "https", "data", "blob" }
HrefProtocols == { "http", "https", "mailto", "tel" }

\* MarkdownRenderer.tsx 15-41 and 371: rehype-sanitize under sanitizeSchema
\* keeps an address that has no scheme or an allowed one and drops any other.
Sanitize(el) ==
    CASE el.kind = "mdimg" ->
            IF Scheme(el.url) = "" \/ Scheme(el.url) \in SrcProtocols THEN el
            ELSE Element("mdimg", <<>>)
      [] el.kind = "mdlink" ->
            IF Scheme(el.url) = "" \/ Scheme(el.url) \in HrefProtocols THEN el
            ELSE Element("mdlink", <<>>)
      [] OTHER -> el

\* MarkdownRenderer.tsx 276-366 without the placeholder of 329-335.
ImgComponentNoPlaceholder(src, refs, fallback) ==
    [tag |-> "img", url |-> FixedSrc(src, refs, fallback)]

\* MarkdownRenderer.tsx 276-366: ImgComponent.  Without an address it renders
\* the placeholder, otherwise the image with fixedSrc as its address.
ImgComponent(src, refs, fallback) ==
    LET fixedSrc == FixedSrc(src, refs, fallback) IN
    IF fixedSrc = <<>> THEN [tag |-> "placeholder", url |-> <<>>]
    ELSE [tag |-> "img", url |-> fixedSrc]

\* MarkdownRenderer.tsx 254-272 and 368-409: one element of the text through
\* the pre-rewrite, the sanitizer and the components.
RenderElement(el, refs, fallback) ==
    LET e == Sanitize(SanitizedContent(el, refs, fallback)) IN
    CASE e.kind = "mdimg" -> ImgComponent(e.url, refs, fallback)
      [] e.kind = "mdlink" -> [tag |-> "a", url |-> e.url]
      [] OTHER -> [tag |-> "none", url |-> <<>>]

\* MarkdownRenderer.tsx 418-431: one card for each reference with a
\* citationId; the card's page is r.page || 0.
Cards(refs) == SelectSeq(refs, LAMBDA r : r.citationId # "")
CardPage(r) == IF "page" \in DOMAIN r THEN r.page ELSE 0

\* MarkdownRenderer.tsx 144-146: the number shown on the card whose place in
\* the filtered list, counted from zero, is index.
ShownNumber(index) == index + 1

\* ChatInterface.tsx 374-379 and 403-410: the reference lists of the
\* MarkdownRenderers on display, one for each assistant message and one for
\* the pending turn once it has text.
DisplayedReferenceLists ==
    { messages[i].references : i \in { j \in DOMAIN messages : messages[j].type = "assistant" } }
    \cup (IF isTyping /\ currentResponse # <<>> THEN { currentReferences } ELSE {})

\* MarkdownRenderer.tsx 137-141 without the test of the page.
CardNavigatesAlways(page) == TRUE

\* MarkdownRenderer.tsx 137-141: if (page > 0)
CardNavigates(page) == page > 0

\* What the renderer is given.
RelPage22 == << "images", Slash, "page", "2", "2", "_img1.png" >>
DotRelPage22 == << ".", Slash >> \o RelPage22
RelPage5 == << "images", Slash, "PAGE", "5", ".png" >>
RelPage99 == << "images", Slash, "page", "9", "9", "_img2.png" >>
DotRelPage99 == << ".", Slash >> \o RelPage99
RelNoPage == << "images", Slash, "fig.png" >>
HttpsImage == << "http", "s", "://", "host", Slash, "a.png" >>
DataImage == << "data:", "image", Slash, "png;base64,AA" >>
ApiImage == << Slash, "api", Slash, "v1", Slash, "pdf", Slash, "x.png" >>
ScriptUrl == << "javascript:", "alert(1)" >>
FtpUrl == << "ftp:", "//", "host", Slash, "f" >>
MailUrl == << "mailto:", "a@b" >>
HttpsLink == << "http", "s", "://", "host", Slash, "doc" >>

ImagePaths ==
    { RelPage22, DotRelPage22, RelPage5, RelPage99, DotRelPage99, RelNoPage,
      HttpsImage, DataImage, ApiImage, ScriptUrl, <<>> }
LinkUrls == { HttpsLink, MailUrl, ScriptUrl, FtpUrl, DataImage }

Elements ==
    { Element("mdimg", u) : u \in ImagePaths } \cup
    { Element("mdlink", u) : u \in LinkUrls } \cup
    { Element("htmlimg", HttpsImage) }

RenderRefs ==
    { [id |-> 1, citationId |-> "c1", page |-> 22, fileId |-> "f1"],
      [id |-> 2, citationId |-> "c2", page |-> 5, fileId |-> "f2"],
      [id |-> 1, citationId |-> "", page |-> 22, fileId |-> ""],
      [id |-> 1, citationId |-> "c4", fileId |-> "f2"],
      [id |-> 2, citationId |-> "c5", page |-> 0, fileId |-> "f1"],
      [id |-> 2, citationId |-> "c6", page |-> 22, fileId |-> "f2"] }
RefLists == { <<>> } \cup SeqsUpTo(RenderRefs, MaxRefs)
Fallbacks == { "", "f3" }

\* MarkdownRenderer.tsx 368-409: an element of the message text is rendered
Render(el) ==
    /\ rendered' = [tag |-> RenderElement(el, references, fallbackFileId).tag,
                     url |-> RenderElement(el, references, fallbackFileId).url,
                     el |-> el]
    /\ UNCHANGED << appVars, chatVars, netVars, tVars, pdfVars, references, fallbackFileId,
                    previewImage, navigated, cardClicks >>

\* MarkdownRenderer.tsx 134-142: a click on the k-th reference card.  While the
\* preview is open its dialog covers the cards.
ClickCard(k) ==
    /\ previewImage = <<>>
    /\ k \in 1..Len(Cards(references))
    /\ cardClicks < MaxClicks
    /\ cardClicks' = cardClicks + 1
    /\ LET r == Cards(references)[k] IN
       navigated' = IF CardNavigates(CardPage(r))
                    THEN Append(navigated, [page |-> CardPage(r), fileId |-> r.fileId])
                    ELSE navigated
    /\ UNCHANGED << appVars, chatVars, netVars, tVars, pdfVars, references, fallbackFileId,
                    rendered, previewImage >>

\* MarkdownRenderer.tsx 130-131: the address of a thumbnail of a card
GetImageUrl(fileId, imageName) ==
    ApiBase \o << Slash, "pdf", Slash, "images", "?fileId=" >> \o EncodeURIComponent(<< fileId >>)
    \o << "&imagePath=" >> \o EncodeURIComponent(imageName)

ThumbnailName == << "page_img1.png" >>

\* MarkdownRenderer.tsx 159-162 without stopPropagation: the click reaches
\* the card as well (137-141).
ClickThumbnailPropagates(k) ==
    /\ previewImage = <<>>
    /\ k \in 1..Len(Cards(references))
    /\ cardClicks < MaxClicks
    /\ LET r == Cards(references)[k] IN
       /\ HasFileId(r) /\ CardPage(r) > 0
       /\ previewImage' = GetImageUrl(r.fileId, ThumbnailName)
       /\ navigated' = Append(navigated, [page |-> CardPage(r), fileId |-> r.fileId])
    /\ cardClicks' = cardClicks + 1
    /\ UNCHANGED << appVars, chatVars, netVars, tVars, pdfVars, references, fallbackFileId,
                    rendered >>

\* MarkdownRenderer.tsx 108-128 and 156-163: a click on a thumbnail of the
\* k-th card; a card has thumbnails only if it has a fileId and a positive
\* page, and the click does not reach the card (stopPropagation).
ClickThumbnail(k) ==
    /\ previewImage = <<>>
    /\ k \in 1..Len(Cards(references))
    /\ LET r == Cards(references)[k] IN
       /\ HasFileId(r) /\ CardPage(r) > 0
       /\ previewImage' = GetImageUrl(r.fileId, ThumbnailName)
    /\ UNCHANGED << appVars, chatVars, netVars, tVars, pdfVars, references, fallbackFileId,
                    rendered, navigated, cardClicks >>

\* MarkdownRenderer.tsx 348-351: a click on the rendered image
ClickImage ==
    /\ previewImage = <<>>
    /\ rendered.tag = "img"
    /\ previewImage' = rendered.url
    /\ UNCHANGED << appVars, chatVars, netVars, tVars, pdfVars, references, fallbackFileId,
                    rendered, navigated, cardClicks >>

\* MarkdownRenderer.tsx 437-440: the preview is closed
ClosePreview ==
    /\ previewImage # <<>>
    /\ previewImage' = <<>>
    /\ UNCHANGED << appVars, chatVars, netVars, tVars, pdfVars, references, fallbackFileId,
                    rendered, navigated, cardClicks >>

\* A message with any references and any fallback file is on display.
InitRender ==
    /\ chatKey = 0
    /\ currentFileId = NoFile
    /\ messages = << WelcomeMessage >>
    /\ input = <<>>
    /\ isTyping = FALSE
    /\ chatMode = MountedChatMode(NoFile)
    /\ currentResponse = <<>>
    /\ currentReferences = <<>>
    /\ currentResponseRef = <<>>
    /\ currentReferencesRef = <<>>
    /\ citationIdsRef = {}
    /\ abortRef = "null"
    /\ clearPc = "idle"
    /\ toast = "none"
    /\ streams = <<>>
    /\ turnLog = <<>>
    /\ sendsLeft = 0
    /\ TInitIdle
    /\ references \in RefLists
    /\ fallbackFileId \in Fallbacks
    /\ rendered = NothingRendered
    /\ previewImage = <<>>
    /\ navigated = <<>>
    /\ cardClicks = 0
    /\ PdfInitIdle

\* The text of the message on display changes and its images are looked at.
NextRender ==
    \/ \E el \in Elements : Render(el)
    \/ ClickImage
    \/ ClosePreview

SpecRender == InitRender /\ [][NextRender]_vars

\* The reference cards of the message on display are clicked.
NextCards ==
    \/ \E k \in 1..MaxRefs : ClickCard(k)
    \/ \E k \in 1..MaxRefs : ClickThumbnail(k)
    \/ ClosePreview

SpecCards == InitRender /\ [][NextCards]_vars

\* A message with an image and reference cards on display: the image, the
\* cards and their thumbnails are clicked.
PreviewElements ==
    { Element("mdimg", RelPage22), Element("mdimg", HttpsImage), Element("mdimg", RelPage99) }

NextPreview ==
    \/ \E el \in PreviewElements : Render(el)
    \/ ClickImage
    \/ \E k \in 1..MaxRefs : ClickCard(k)
    \/ \E k \in 1..MaxRefs : ClickThumbnail(k)
    \/ ClosePreview

SpecPreview == InitRender /\ [][NextPreview]_vars

\* ------------------------------------- MarkdownRenderer: paragraphs, code

\* MarkdownRenderer.tsx 372-403: the tags for which ReactMarkdown is given a
\* component.  The React element of such a tag has that component (a
\* function) as its type; the element of any other tag has the tag name (a
\* string) as its type; a piece of text is not an element.
Components ==
    { "img", "code", "table", "thead", "th", "td", "h1", "h2", "h3",
      "ul", "ol", "a", "p" }
ChildType(tag) ==
    IF tag = "text" THEN [kind |-> "text", name |-> ""]
    ELSE IF tag \in Components THEN [kind |-> "function", name |-> tag]
    ELSE [kind |-> "string", name |-> tag]

\* MarkdownRenderer.tsx 394
BlockTags == { "div", "pre", "table", "ul", "ol", "blockquote", "figure" }

\* MarkdownRenderer.tsx 388-399: hasBlockChild
HasBlockChild(children) ==
    \E k \in 1..Len(children) :
        LET type == ChildType(children[k]) IN
        /\ type.kind # "text"
        /\ \/ type.kind = "string" /\ type.name \in BlockTags
           \/ type = [kind |-> "function", name |-> "code"]

\* MarkdownRenderer.tsx 386-403: the p component
Paragraph(children) == IF HasBlockChild(children) THEN "div" ELSE "p"

\* The children a paragraph can be given.
ChildTags ==
    { "text", "strong", "a", "img", "code", "pre", "div", "table", "ul", "ol",
      "blockquote", "figure" }

RenderParagraph(children) ==
    /\ rendered' = [tag |-> Paragraph(children), url |-> <<>>,
                     el |-> [kind |-> "p", url |-> <<>>, children |-> children]]
    /\ UNCHANGED << appVars, chatVars, netVars, tVars, pdfVars, references, fallbackFileId,
                    previewImage, navigated, cardClicks >>

\* MarkdownRenderer.tsx 54: (className || "").replace("language-", "") ||
\* "code".  A class name is a sequence of pieces, "language-" being one.
LanguagePrefix == "language-"
DefaultLanguage == << "code" >>
ReplaceFirst(s, piece) ==
    LET i == IndexOf(s, << piece >>, 1) IN
    IF i = 0 THEN s ELSE SubSeq(s, 1, i - 1) \o SubSeq(s, i + 1, Len(s))
Language(className) ==
    LET l == ReplaceFirst(className, LanguagePrefix) IN
    IF l = <<>> THEN DefaultLanguage ELSE l

\* MarkdownRenderer.tsx 55: String(children).replace(/\n$/, "")
CodeContent(children) ==
    IF children # <<>> /\ children[Len(children)] = NL
    THEN SubSeq(children, 1, Len(children) - 1) ELSE children

\* MarkdownRenderer.tsx 60
IsInline(inline, className, children) ==
    inline \/ (Language(className) = DefaultLanguage
                 /\ ~Includes(CodeContent(children), << NL >>))

\* MarkdownRenderer.tsx 52-86: Code.  Inline code is a code element; a block
\* is a div with the language as its label, a Copy button and the pre.
Code(inline, className, children) ==
    IF IsInline(inline, className, children)
    THEN [tag |-> "code", label |-> <<>>, copy |-> FALSE,
          content |-> CodeContent(children)]
    ELSE [tag |-> "div", label |-> Language(className), copy |-> TRUE,
          content |-> CodeContent(children)]

\* What ReactMarkdown gives Code: the class language-<tag> for a fenced block
\* with a tag, none otherwise; the text of a fenced block ends with a newline.
LanguageTags == { << "js" >>, << "python" >>, << "code" >>, << "c", "++" >> }
ClassNames == { <<>> } \cup { << LanguagePrefix >> \o t : t \in LanguageTags }
CodeTexts ==
    { << "x" >>, << "x", NL >>, << "x", NL, "y", NL >>, << "x", NL, "y" >>, << NL >> }

RenderCode(inline, className, children) ==
    /\ rendered' = [tag |-> Code(inline, className, children).tag, url |-> <<>>,
                     el |-> [kind |-> "code", url |-> <<>>, inline |-> inline,
                             className |-> className, children |-> children],
                     label |-> Code(inline, className, children).label,
                     copy |-> Code(inline, className, children).copy]
    /\ UNCHANGED << appVars, chatVars, netVars, tVars, pdfVars, references, fallbackFileId,
                    previewImage, navigated, cardClicks >>

\* The paragraphs and the code of a message text are rendered.
NextBlocks ==
    \/ \E children \in { <<>> } \cup SeqsUpTo(ChildTags, MaxChildren) : RenderParagraph(children)
    \/ \E inline \in BOOLEAN, className \in ClassNames, children \in CodeTexts :
          RenderCode(inline, className, children)

SpecBlocks == InitTurn /\ [][NextBlocks]_vars

\* ------------------------------------------------ App and PDFPanel: actions

\* App.tsx 32-43 called with (page, fileId), then the effect of
\* ChatInterface.tsx 58-64 if the fileId changed and the effects of
\* PDFPanel.tsx 46-61.
HandleCitationClick(page, f) ==
    LET switch == f # "" /\ f # currentFileId
        id == IF switch THEN f ELSE currentFileId
        name == IF switch THEN LoadingName ELSE currentFileName
        pages == IF switch THEN 0 ELSE currentTotalPages
        target == IF page > 0 THEN page ELSE targetPage
    IN /\ currentFileId' = id
       /\ currentFileName' = name
       /\ currentTotalPages' = pages
       /\ targetPage' = target
       /\ chatMode' = IF switch THEN MountedChatMode(id) ELSE chatMode
       /\ panel' = RunEffects(panel,
                       PanelProps(currentFileId, currentFileName, currentTotalPages, targetPage),
                       PanelProps(id, name, pages, target))

\* MarkdownRenderer.tsx 137-141 with onCitationClick bound to
\* handleCitationClick (App.tsx 128): a click on the card of reference r.
ClickCitation(r) ==
    /\ CardNavigates(CardPage(r))
    /\ HandleCitationClick(CardPage(r), r.fileId)
    /\ lastCitation' = r
    /\ UNCHANGED << chatKey, messages, input, isTyping, currentResponse,
                    currentReferences, currentResponseRef, currentReferencesRef,
                    citationIdsRef, abortRef, clearPc, toast, netVars, tVars, mdVars,
                    uploadVars >>

\* PDFPanel.tsx 209-213 (the button is disabled on the last page, 432)
NextPage ==
    /\ panel.uploadStatus = "ready"
    /\ panel.currentPage < panel.totalPages
    /\ panel' = [panel EXCEPT !.currentPage = @ + 1]
    /\ lastCitation' = NoCitation
    /\ UNCHANGED << appVars, chatVars, netVars, tVars, mdVars, currentFileName,
                    currentTotalPages, targetPage, uploadVars >>

\* PDFPanel.tsx 215-219 (the button is disabled on the first page, 418)
PrevPage ==
    /\ panel.uploadStatus = "ready"
    /\ panel.currentPage > 1
    /\ panel' = [panel EXCEPT !.currentPage = @ - 1]
    /\ lastCitation' = NoCitation
    /\ UNCHANGED << appVars, chatVars, netVars, tVars, mdVars, currentFileName,
                    currentTotalPages, targetPage, uploadVars >>

\* PDFPanel.tsx 191-207 (the button is shown unless the panel is idle,
\* 289-305): the polling timer is cleared and the state reset; the runs of
\* handleFileUpload and the status requests under way are not touched.
HandleReplace ==
    /\ panel.uploadStatus # "idle"
    /\ statusCheckInterval' = <<>>
    /\ panel' = IdlePanel
    /\ lastCitation' = NoCitation
    /\ UNCHANGED << appVars, chatVars, netVars, tVars, mdVars, currentFileName,
                    currentTotalPages, targetPage, uploads, polls >>

\* The props App passes to the panel (App.tsx 113-119).
CurrentProps == PanelProps(currentFileId, currentFileName, currentTotalPages, targetPage)

\* s without its i-th element.
RemoveAt(s, i) == SubSeq(s, 1, i - 1) \o SubSeq(s, i + 1, Len(s))

\* PDFPanel.tsx 63-84: a file is chosen in the dialog, which the button of
\* the idle panel opens (289-294).  The run keeps the fileName and the
\* totalPages of the render it was created in and stops at await uploadPdf.
HandleFileUpload(file) ==
    /\ panel.uploadStatus = "idle"
    /\ IF ~file.pdf
       THEN /\ toast' = "invalidFile"
            /\ UNCHANGED << panel, uploads, lastCitation >>
       ELSE /\ Len(uploads) < MaxUploads
            /\ panel' = [panel EXCEPT !.fileName = file.name, !.uploadStatus = "uploading"]
            /\ uploads' = Append(uploads, [pc |-> "awaitUpload", fileId |-> "",
                                           fileName |-> panel.fileName,
                                           totalPages |-> panel.totalPages])
            /\ lastCitation' = NoCitation
            /\ UNCHANGED toast
    /\ UNCHANGED << appVars, messages, input, isTyping, chatMode, currentResponse,
                    currentReferences, currentResponseRef, currentReferencesRef,
                    citationIdsRef, abortRef, clearPc, netVars, tVars, mdVars,
                    currentFileName, currentTotalPages, targetPage,
                    statusCheckInterval, polls >>

\* PDFPanel.tsx 102-143: the catch block of handleFileUpload, entered from
\* either await.  A fetch that found no server starts the demonstration
\* (106-138), any other error ends the run in the error state (140-142).
UploadCatch(i, outcome) ==
    IF outcome = "failedToFetch"
    THEN /\ panel' = Rerender(panel,
                         [panel EXCEPT !.fileId = MockFileId, !.totalPages = MockPages,
                                       !.currentPage = 1],
                         CurrentProps, CurrentProps)
         /\ uploads' = [uploads EXCEPT ![i].pc = "demoTimeout"]
         /\ toast' = "uploadedDemo"
    ELSE /\ panel' = [panel EXCEPT !.uploadStatus = "error"]
         /\ uploads' = RemoveAt(uploads, i)
         /\ toast' = "uploadFailed"

\* PDFPanel.tsx 84-97: uploadPdf is answered; the run sets the file of the
\* answer, shows the parsing state and stops at await startParse.
UploadResponds(i, outcome) ==
    /\ i \in DOMAIN uploads
    /\ uploads[i].pc = "awaitUpload"
    /\ IF outcome = "ok"
       THEN /\ panel' = Rerender(panel,
                            [panel EXCEPT !.fileId = UploadedFileId,
                                          !.totalPages = UploadedPages,
                                          !.currentPage = 1,
                                          !.uploadStatus = "parsing"],
                            CurrentProps, CurrentProps)
            /\ uploads' = [uploads EXCEPT ![i].pc = "awaitParse",
                                          ![i].fileId = UploadedFileId]
            /\ toast' = "uploaded"
       ELSE UploadCatch(i, outcome)
    /\ lastCitation' = NoCitation
    /\ UNCHANGED << appVars, messages, input, isTyping, chatMode, currentResponse,
                    currentReferences, currentResponseRef, currentReferencesRef,
                    citationIdsRef, abortRef, clearPc, netVars, tVars, mdVars,
                    currentFileName, currentTotalPages, targetPage,
                    statusCheckInterval, polls >>

\* PDFPanel.tsx 97-100 and 146-151: startParse is answered; the run calls
\* startStatusPolling, which replaces the timer, and ends.
ParseResponds(i, outcome) ==
    /\ i \in DOMAIN uploads
    /\ uploads[i].pc = "awaitParse"
    /\ IF outcome = "ok"
       THEN /\ statusCheckInterval' = << [fileId |-> uploads[i].fileId,
                                          fileName |-> uploads[i].fileName,
                                          totalPages |-> uploads[i].totalPages] >>
            /\ uploads' = RemoveAt(uploads, i)
            /\ UNCHANGED << panel, toast, lastCitation >>
       ELSE /\ UploadCatch(i, outcome)
            /\ lastCitation' = NoCitation
            /\ UNCHANGED statusCheckInterval
    /\ UNCHANGED << appVars, messages, input, isTyping, chatMode, currentResponse,
                    currentReferences, currentResponseRef, currentReferencesRef,
                    citationIdsRef, abortRef, clearPc, netVars, tVars, mdVars,
                    currentFileName, currentTotalPages, targetPage, polls >>

\* PDFPanel.tsx 117-120: the timeout of the demonstration fires.
DemoTimeout(i) ==
    /\ i \in DOMAIN uploads
    /\ uploads[i].pc = "demoTimeout"
    /\ panel' = [panel EXCEPT !.uploadStatus = "parsing"]
    /\ uploads' = [uploads EXCEPT ![i].pc = "demoInterval"]
    /\ lastCitation' = NoCitation
    /\ UNCHANGED << appVars, chatVars, netVars, tVars, mdVars, currentFileName,
                    currentTotalPages, targetPage, statusCheckInterval, polls >>

\* App.tsx 19-23 called by the panel with the state `after`: handleFileReady,
\* then the effect of ChatInterface.tsx 58-64 if the fileId changed and the
\* effects of PDFPanel.tsx 46-61.
FileReady(after, fileId, fileName, totalPages) ==
    /\ currentFileId' = fileId
    /\ currentFileName' = fileName
    /\ currentTotalPages' = totalPages
    /\ chatMode' = IF fileId # currentFileId THEN MountedChatMode(fileId) ELSE chatMode
    /\ panel' = Rerender(panel, after, CurrentProps,
                         PanelProps(fileId, fileName, totalPages, targetPage))

\* PDFPanel.tsx 122-133: the tick of the demonstration's timer that finds
\* the progress complete; the ticks before it change the progress only.
DemoReady(i) ==
    /\ i \in DOMAIN uploads
    /\ uploads[i].pc = "demoInterval"
    /\ FileReady([panel EXCEPT !.uploadStatus = "ready"],
                 MockFileId, uploads[i].fileName, MockPages)
    /\ uploads' = RemoveAt(uploads, i)
    /\ toast' = "processedDemo"
    /\ lastCitation' = NoCitation
    /\ UNCHANGED << chatKey, messages, input, isTyping, currentResponse,
                    currentReferences, currentResponseRef, currentReferencesRef,
                    citationIdsRef, abortRef, clearPc, netVars, tVars, mdVars,
                    targetPage, statusCheckInterval, polls >>

\* PDFPanel.tsx 151-153: the polling timer fires and asks for the status.
PollTick ==
    /\ statusCheckInterval # <<>>
    /\ Len(polls) < MaxPolls
    /\ polls' = Append(polls, statusCheckInterval[1])
    /\ UNCHANGED << appVars, chatVars, netVars, tVars, mdVars, currentFileName,
                    currentTotalPages, targetPage, panel, lastCitation, uploads,
                    statusCheckInterval >>

\* PDFPanel.tsx 153-174: getParseStatus is answered.  clearInterval is given
\* the timer the ref holds at that time.
PollResponds(j, outcome) ==
    /\ j \in DOMAIN polls
    /\ polls' = RemoveAt(polls, j)
    /\ CASE outcome = "ready" ->
              /\ FileReady([panel EXCEPT !.uploadStatus = "ready"],
                           polls[j].fileId, polls[j].fileName, polls[j].totalPages)
              /\ statusCheckInterval' = <<>>
              /\ toast' = "processed"
              /\ lastCitation' = NoCitation
         [] outcome = "error" ->
              /\ panel' = [panel EXCEPT !.uploadStatus = "error"]
              /\ statusCheckInterval' = <<>>
              /\ toast' = "processFailed"
              /\ lastCitation' = NoCitation
              /\ UNCHANGED << currentFileId, currentFileName, currentTotalPages, chatMode >>
         [] outcome = "throw" ->
              /\ panel' = [panel EXCEPT !.uploadStatus = "error"]
              /\ statusCheckInterval' = <<>>
              /\ lastCitation' = NoCitation
              /\ UNCHANGED << currentFileId, currentFileName, currentTotalPages, chatMode,
                              toast >>
         [] OTHER ->
              UNCHANGED << currentFileId, currentFileName, currentTotalPages, chatMode,
                           panel, statusCheckInterval, toast, lastCitation >>
    /\ UNCHANGED << chatKey, messages, input, isTyping, currentResponse,
                    currentReferences, currentResponseRef, currentReferencesRef,
                    citationIdsRef, abortRef, clearPc, netVars, tVars, mdVars,
                    targetPage, uploads >>

\* The reference cards a committed message can show: any page of either
\* file, a page beyond the file, page 0, no page, and no fileId.
PanelCitations ==
    { [id |-> 1, citationId |-> "c1", page |-> pg, fileId |-> f] :
        pg \in 0..3, f \in Files \cup { "" } }
      \cup { [id |-> 1, citationId |-> "c4", fileId |-> "f2"] }

\* The user selects files in the sidebar, clicks reference cards, pages
\* through the document and removes it from the panel.
NextPanel ==
    \/ \E f \in Files : SelectFile(f)
    \/ \E r \in PanelCitations : ClickCitation(r)
    \/ NextPage
    \/ PrevPage
    \/ HandleReplace

SpecPanel == InitTurn /\ [][NextPanel]_vars

\* The reference cards clicked while files are uploaded.
UploadCitations ==
    { [id |-> 1, citationId |-> "c1", page |-> 3, fileId |-> f] :
        f \in { "f1", UploadedFileId } }

\* The user uploads files and replaces them while the requests are under
\* way, selects a file in the sidebar, clicks reference cards and pages
\* through the document.
NextUpload ==
    \/ \E file \in ChosenFiles : HandleFileUpload(file)
    \/ \E i \in 1..MaxUploads, o \in RequestOutcomes : UploadResponds(i, o)
    \/ \E i \in 1..MaxUploads, o \in RequestOutcomes : ParseResponds(i, o)
    \/ \E i \in 1..MaxUploads : DemoTimeout(i)
    \/ \E i \in 1..MaxUploads : DemoReady(i)
    \/ PollTick
    \/ \E j \in 1..MaxPolls, o \in StatusOutcomes : PollResponds(j, o)
    \/ HandleReplace
    \/ SelectFile("f2")
    \/ \E r \in UploadCitations : ClickCitation(r)
    \/ NextPage
    \/ PrevPage

SpecUpload == InitTurn /\ [][NextUpload]_vars


\* ================================================================== claims

LastMessage == messages[Len(messages)]
LastCall == turnLog[Len(turnLog)]
TurnDone == turnLog # <<>> /\ LastCall.cb = "onDone"
TurnFailed == turnLog # <<>> /\ LastCall.cb = "onError"

\* The texts of the token events of a log, in the order of the log.
RECURSIVE TokenText(_)
TokenText(log) ==
    IF log = <<>> THEN <<>>
    ELSE (IF Head(log).cb = "onToken" THEN Head(log).arg.text ELSE <<>>)
         \o TokenText(Tail(log))

\* The citation events of a log that carry a non-empty id not carried by an
\* earlier one, in the order of the log.
RECURSIVE FirstSeen(_, _)
FirstSeen(log, seen) ==
    IF log = <<>> THEN <<>>
    ELSE LET c == Head(log) IN
         IF c.cb = "onCitation" /\ c.arg.citation_id # "" /\ c.arg.citation_id \notin seen
         THEN << c.arg >> \o FirstSeen(Tail(log), seen \cup { c.arg.citation_id })
         ELSE FirstSeen(Tail(log), seen)

CitationCalls(log) == SelectSeq(log, LAMBDA c : c.cb = "onCitation")

RefsMatch(refs, cits) ==
    /\ Len(refs) = Len(cits)
    /\ \A k \in 1..Len(refs) :
          /\ refs[k].id = k
          /\ refs[k].citationId = cits[k].citation_id
          /\ refs[k].page = cits[k].page
          /\ refs[k].fileId = cits[k].fileId

\* C1: when a turn's stream has delivered its events and then done, and the
\* token texts concatenated in arrival order are not empty, the assistant
\* message committed for the turn has exactly that concatenation as content,
\* whatever citations came between the tokens.
C1_ContentIsTokenConcatenation ==
    (TurnDone /\ TokenText(turnLog) # <<>>) =>
        /\ LastMessage.type = "assistant"
        /\ LastMessage.content = TokenText(turnLog)

C1_Witness ==
    /\ TurnDone
    /\ LastMessage.content = << "a", "b" >>
    /\ \E i, j, k \in 1..Len(turnLog) :
          /\ i < j /\ j < k
          /\ turnLog[i].cb = "onToken"
          /\ turnLog[j].cb = "onCitation"
          /\ turnLog[k].cb = "onToken"

\* C2: over the citation events of a turn, repeated and empty ids included,
\* the reference list holds one Reference for each distinct non-empty
\* citationId, in first-seen order, numbered 1..n in that order, while the
\* turn is pending and in the message committed at done; a citation with an
\* empty or already seen id changes nothing.
C2_ReferencesAreFirstSeen ==
    /\ isTyping => RefsMatch(currentReferencesRef, FirstSeen(turnLog, {}))
    /\ TurnDone => RefsMatch(LastMessage.references, FirstSeen(turnLog, {}))

C2_Witness ==
    /\ TurnDone
    /\ Len(LastMessage.references) = 2
    /\ Len(CitationCalls(turnLog)) = 3

\* C4: canSend is false exactly when the input is empty or only whitespace,
\* or a turn is in progress, or the chat mode is single-document and no file
\* is selected.
Blank(text) == \A k \in 1..Len(text) : text[k] \in { SP, NL }

C4_CanSendIff ==
    canSend <=> ~(\/ Blank(input)
                  \/ isTyping
                  \/ (chatMode = "single" /\ currentFileId = NoFile))

C4_Witness ==
    /\ ~canSend
    /\ input = << SP, "q" >>
    /\ ~isTyping
    /\ chatMode = "single"
    /\ currentFileId = NoFile

\* C7: whenever the busy flag isTyping is unset there is no pending turn: the
\* displayed and the accumulated text are empty, the displayed and the
\* accumulated reference lists are empty and no citation id is marked seen.
C7_IdleHasNoPendingTurn ==
    ~isTyping =>
        /\ currentResponse = <<>>
        /\ currentResponseRef = <<>>
        /\ currentReferences = <<>>
        /\ currentReferencesRef = <<>>
        /\ citationIdsRef = {}

C7_Witness ==
    /\ ~isTyping
    /\ TurnFailed
    /\ \E k \in 1..Len(turnLog) : turnLog[k].cb = "onToken"

\* Requests to the chat endpoint that are open: awaiting the response or
\* reading its body.
OpenRequests(sessionId) ==
    { i \in DOMAIN streams :
        /\ streams[i].phase \in { "fetching", "reading" }
        /\ streams[i].req.sessionId = sessionId }

SessionFields ==
    << messages, currentResponse, currentResponseRef, currentReferences,
       currentReferencesRef, isTyping >>

\* C3: once the abort has been issued for a streaming turn, no chunk the
\* stream delivers afterwards changes the message list, the pending text, the
\* pending references or the busy flag, so no assistant message is committed
\* for that turn.
C3_NoEffectAfterCancel ==
    [][\A i \in DOMAIN streams :
          (/\ streams[i].abortRequested
           /\ streams[i].owner = chatKey
           /\ \E bs \in SessionChunks : ReadChunk(i, bs))
          => UNCHANGED SessionFields]_vars

\* C5: a send that is accepted while an earlier request is open cancels that
\* request before it opens its own, so after the send the only open request
\* is the new one.
C5_ResendCancelsPrior ==
    [][Len(messages') > Len(messages) /\ LastMessage'.type = "user"
          => Cardinality(OpenRequests(SessionId)') = 1]_vars

\* C6: at most one chat request is open for a session id.
C6_AtMostOneOpenRequest == Cardinality(OpenRequests(SessionId)) <= 1

\* C8: when clearChat completes, whatever clearSession answered, the message
\* list is the single welcome message.
C8_ClearResetsMessages ==
    [][clearPc = "awaitClear" /\ clearPc' = "idle"
          => messages' = << WelcomeMessage >>]_vars


\* What the blocks of a body stand for, read off the blocks themselves: the
\* event of a block whose payload decodes and whose type is one of the four,
\* nothing for any other block, and nothing after a done or an error.
Decodes(b) == b.doc \in DOMAIN JsonDocs
IsTerminal(b) == Decodes(b) /\ b.type \in { "done", "error" }
EventOf(b) ==
    IF ~Decodes(b) THEN <<>>
    ELSE CASE b.type = "token" -> << [cb |-> "onToken", arg |-> [text |-> JsonDocs[b.doc].text]] >>
           [] b.type = "citation" -> << [cb |-> "onCitation", arg |-> JsonDocs[b.doc]] >>
           [] b.type = "done" -> << [cb |-> "onDone", arg |-> JsonDocs[b.doc]] >>
           [] b.type = "error" -> << [cb |-> "onError", arg |-> [message |-> JsonDocs[b.doc].message]] >>
           [] OTHER -> <<>>

RECURSIVE Events(_)
Events(bs) ==
    IF bs = <<>> THEN <<>>
    ELSE EventOf(Head(bs)) \o (IF IsTerminal(Head(bs)) THEN <<>> ELSE Events(Tail(bs)))

\* Blocks of the body whose closing blank line has been read in full.
BlockEnd(k) == Len(EncodeBlocks(SubSeq(tBlocks, 1, k)))
Arrived == Cardinality({ k \in 1..Len(tBlocks) : BlockEnd(k) <= tPos })

\* C9: however a body of complete blocks is cut into chunks, the callbacks
\* invoked so far are the events of the blocks whose closing blank line has
\* arrived, each once and in order, none before its blank line is complete;
\* at the end they are what the body dispatches when it arrives as one chunk.
C9_ChunkingIsInvisible ==
    /\ tDispatched = Events(SubSeq(tBlocks, 1, Arrived))
    /\ tPhase \in { "returned", "ended" } =>
          tDispatched = ProcessChunk(<<>>, Body).calls

C9_Witness ==
    /\ Len(tDispatched) = 1
    /\ tBuffer # <<>>
    /\ tBuffer[Len(tBuffer)] = NL
    /\ tPhase = "reading"

IsTerminalCall(c) == c.cb \in { "onDone", "onError" }

\* C10: after a done or an error callback the transport invokes no further
\* callback, also not for complete blocks of the same chunk, and reads no
\* further chunk.
C10_NothingAfterTerminal ==
    [][/\ (\E k \in 1..Len(tDispatched) : IsTerminalCall(tDispatched[k]))
            => (tDispatched' = tDispatched /\ tPos' = tPos)
       /\ \A k \in 1..(Len(tDispatched') - 1) : ~IsTerminalCall(tDispatched'[k])]_vars

C10_Witness ==
    /\ tPhase = "returned"
    /\ Len(tBlocks) = 2
    /\ IsTerminal(tBlocks[1])
    /\ Decodes(tBlocks[2]) /\ tBlocks[2].type = "token"
    /\ Arrived = 2
    /\ Len(tDispatched) = 1


\* ------------------------------------------------- how a turn can fail

\* The mounted ChatInterface has an invocation of processChatStream running.
HasStream == \E i \in DOMAIN streams : streams[i].owner = chatKey

IsErrorMessage(m) == m.type = "assistant" /\ StartsWith(m.content, ErrorPrefix)

NoPendingTurn ==
    /\ ~isTyping
    /\ currentResponse = <<>> /\ currentResponseRef = <<>>
    /\ currentReferences = <<>> /\ currentReferencesRef = <<>>
    /\ citationIdsRef = {}

\* C11: once the stream of a turn is over, whether it ended or failed before
\* a done or an error was dispatched, the busy flag is unset and the turn has
\* an assistant message; a turn that got no done has an error message.
C11_EndedStreamLeavesIdle ==
    ~HasStream =>
        /\ ~isTyping
        /\ LastMessage.type = "assistant"
        /\ (Len(messages) > 1 /\ ~TurnDone) => IsErrorMessage(LastMessage)

\* C12 as stated: when the fetch of the chat request rejects, no token is
\* delivered, one error message is committed, the pending turn is cleared and
\* the busy flag is unset.
C12_FetchFailureIsError ==
    [][(\E o \in { "failedToFetch", "rejected" } : FetchResponds(1, o))
          => (/\ NoPendingTurn'
              /\ IsErrorMessage(LastMessage')
              /\ Len(messages') = Len(messages) + 1
              /\ streams' = <<>>)]_vars

\* C12 amended: when the fetch of the chat request rejects with anything but
\* the TypeError 'Failed to fetch', no token is delivered, one error message
\* carrying the failure's text is committed, the pending turn is cleared, the
\* busy flag is unset and the invocation is over.
C12_OtherFetchFailureIsError ==
    [][FetchResponds(1, "rejected")
          => (/\ NoPendingTurn'
              /\ LastMessage' = Message("assistant", ErrorPrefix \o NetworkError, <<>>)
              /\ Len(messages') = Len(messages) + 1
              /\ turnLog' = << [cb |-> "onError", arg |-> [message |-> NetworkError]] >>
              /\ streams' = <<>>)]_vars

C12_Witness ==
    /\ turnLog = << [cb |-> "onError", arg |-> [message |-> NetworkError]] >>
    /\ IsErrorMessage(LastMessage)
    /\ ~isTyping
    /\ streams = <<>>

\* The token calls of the simulated response, in order.
DemoTokens(words) == [k \in 1..Len(words) |-> [cb |-> "onToken", arg |-> [text |-> words[k]]]]

InDemo == streams # <<>> /\ streams[1].phase = "demo"

DemoCommitted ==
    /\ turnLog = DemoTokens(DemoWords) \o << [cb |-> "onDone", arg |-> [used_retrieval |-> FALSE]] >>
    /\ LastMessage = Message("assistant", Concat(DemoWords), <<>>)
    /\ NoPendingTurn
    /\ streams = <<>>

\* C13: after the chat fetch rejects with 'Failed to fetch' the transport
\* delivers the words of the simulated answer as tokens, in order, and then
\* one done with used_retrieval = false: while it runs the turn is busy and
\* has received only those tokens; its last tick commits the assistant
\* message with the simulated text and unsets the busy flag, with no error
\* message; and that end is always reached.
C13_DemoModeCompletes ==
    /\ [](InDemo => /\ isTyping
                    /\ turnLog \o DemoTokens(streams[1].words) = DemoTokens(DemoWords))
    /\ [][(InDemo /\ ~InDemo') => DemoCommitted']_vars
    /\ (InDemo ~> DemoCommitted)

C13_Witness == DemoCommitted /\ toast = "none"


\* ---------------------------------------------- the resolver and the renderer

\* The address ImgComponent is given for a markdown image of the text.
ResolverInput(el) == Sanitize(SanitizedContent(el, references, fallbackFileId)).url

\* Shape 2 of the resolver's input: not an absolute or API address, with a
\* file name below images/.
IsRelativeImagePath(src) ==
    /\ ~StartsWith(src, << "http" >>)
    /\ ~StartsWith(src, << Slash, "api", Slash >>)
    /\ Includes(src, << "images", Slash >>)
    /\ Filename(src) # <<>>

BuiltFrom(url, fileId) ==
    \E i \in 1..(Len(url) - 1) : url[i] = "?fileId=" /\ url[i + 1] = fileId

PageRefs(src) ==
    { k \in 1..Len(references) :
        /\ ImgPage(Filename(src)).found
        /\ HasPage(references[k], ImgPage(Filename(src)).page)
        /\ HasFileId(references[k]) }
FileRefs == { k \in 1..Len(references) : HasFileId(references[k]) }

\* The element on display is a markdown image that reached the resolver as a
\* relative image path.
RelativeImage ==
    /\ rendered.el.kind = "mdimg"
    /\ IsRelativeImagePath(ResolverInput(rendered.el))

RenderedPath == ResolverInput(rendered.el)

\* C14: for a relative image path whose page matches no Reference, when some
\* Reference has a fileId the address is built from the first Reference that
\* has a fileId, also when a fallbackFileId is supplied.
C14_ReferenceBeforeFallback ==
    (RelativeImage /\ PageRefs(RenderedPath) = {} /\ FileRefs # {})
    => (/\ rendered.tag = "img"
        /\ BuiltFrom(rendered.url, references[First(FileRefs)].fileId))

\* C15 as stated: when every Reference has a fileId, none has the page of the
\* path and there is no fallbackFileId, the path is unresolved.
C15_NoMatchNoFallbackUnresolved ==
    (/\ RelativeImage
     /\ references # <<>>
     /\ FileRefs = 1..Len(references)
     /\ PageRefs(RenderedPath) = {}
     /\ fallbackFileId = "")
    => rendered.tag = "placeholder"

\* C15 amended: when every Reference has a fileId, none has the page of the
\* path and there is no fallbackFileId, the address is built from the fileId
\* of the first Reference and the file name of the path.
C15_NoMatchNoFallbackFirstReference ==
    (/\ RelativeImage
     /\ references # <<>>
     /\ FileRefs = 1..Len(references)
     /\ PageRefs(RenderedPath) = {}
     /\ fallbackFileId = "")
    => (/\ rendered.tag = "img"
        /\ rendered.url = AssetUrl(references[1].fileId, Filename(rendered.el.url)))

C15_Witness ==
    /\ Len(references) = 2
    /\ references[1].fileId = "f1" /\ HasPage(references[1], 22)
    /\ references[2].fileId = "f2" /\ HasPage(references[2], 5)
    /\ fallbackFileId = ""
    /\ rendered.el = Element("mdimg", RelPage99)
    /\ rendered.tag = "img"
    /\ rendered.url = AssetUrl("f1", Filename(RelPage99))

\* C16: when every Reference has a fileId, none has the page of the path and
\* a fallbackFileId is supplied, the address is built from the fallbackFileId.
C16_NoMatchUsesFallback ==
    (/\ RelativeImage
     /\ references # <<>>
     /\ FileRefs = 1..Len(references)
     /\ PageRefs(RenderedPath) = {}
     /\ fallbackFileId # "")
    => (/\ rendered.tag = "img"
        /\ BuiltFrom(rendered.url, fallbackFileId))

C16_Witness ==
    /\ Len(references) = 2
    /\ references[1].fileId = "f1" /\ HasPage(references[1], 22)
    /\ references[2].fileId = "f2" /\ HasPage(references[2], 5)
    /\ fallbackFileId = "f3"
    /\ rendered.el = Element("mdimg", RelPage99)
    /\ rendered.tag = "img"
    /\ rendered.url = AssetUrl("f3", Filename(RelPage99))

\* C17: when some Reference has the page of the path and a fileId, the
\* address is built from the fileId of the first such Reference, whatever the
\* other References and the fallbackFileId are.
C17_PageMatchWins ==
    (RelativeImage /\ PageRefs(RenderedPath) # {})
    => (/\ rendered.tag = "img"
        /\ BuiltFrom(rendered.url, references[First(PageRefs(RenderedPath))].fileId))

C17_Witness ==
    /\ Len(references) = 2
    /\ references[1].fileId = "f2" /\ "page" \notin DOMAIN references[1]
    /\ references[2].fileId = "f1" /\ HasPage(references[2], 22)
    /\ fallbackFileId = "f3"
    /\ rendered.el = Element("mdimg", RelPage22)
    /\ rendered.tag = "img"
    /\ rendered.url = AssetUrl("f1", Filename(RelPage22))

\* C18: through the render pipeline a link whose address has a scheme outside
\* http, https, mailto and tel loses its address, and an image whose address
\* has the https or the data scheme is rendered as an image with that address.
C18_SanitizerKeepsImageAddresses ==
    /\ (rendered.el.kind = "mdlink" /\ Scheme(rendered.el.url) \notin (HrefProtocols \cup { "" }))
          => (rendered.tag = "a" /\ rendered.url = <<>>)
    /\ (rendered.el.kind = "mdimg" /\ Scheme(rendered.el.url) \in { "https", "data" })
          => (rendered.tag = "img" /\ rendered.url = rendered.el.url)

\* C19: a click on a reference card calls onCitationClick(page, fileId) when
\* the Reference's page is positive and calls nothing when it is 0 or unset;
\* a click on a thumbnail calls nothing; so no call ever carries a page that
\* is not positive.
C19_CardNavigatesIffPositivePage ==
    /\ [][\A k \in 1..MaxRefs :
            /\ ClickCard(k) =>
                 LET r == Cards(references)[k] IN
                 IF "page" \in DOMAIN r /\ r.page > 0
                 THEN navigated' = Append(navigated, [page |-> r.page, fileId |-> r.fileId])
                 ELSE navigated' = navigated
            /\ ClickThumbnail(k) => navigated' = navigated]_vars
    /\ [](\A n \in 1..Len(navigated) : navigated[n].page > 0)

C19_Witness ==
    /\ Len(references) = 2
    /\ HasPage(references[1], 22) /\ references[1].citationId = "c1"
    /\ "page" \notin DOMAIN references[2] /\ references[2].citationId = "c4"
    /\ cardClicks = 2
    /\ navigated = << [page |-> 22, fileId |-> "f1"] >>

\* C20: the request a send opens carries pdfFileId exactly when the chat mode
\* is single-document and a file is selected, and then it is the selected
\* file's id; in global mode it carries none.
C20_ScopeFollowsMode ==
    [][Len(streams') > Len(streams) =>
          streams'[Len(streams')].req.pdfFileId =
              (IF chatMode = "single" /\ currentFileId # NoFile THEN currentFileId ELSE NoFile)]_vars

C20_Witness ==
    /\ Len(streams) = 1
    /\ streams[1].phase = "fetching"
    /\ streams[1].req.pdfFileId = NoFile
    /\ chatMode = "global"
    /\ currentFileId = "f2"

\* The panel shows page pg of file f.
PanelShows(f, pg) ==
    /\ panel.uploadStatus = "ready"
    /\ panel.fileId = f
    /\ panel.currentPage = pg

\* C21: after a click on a reference card whose page is positive and within
\* the page count of the cited file, the panel shows that page of that file,
\* whichever file and page it showed before.
C21_CardClickShowsCitedPage ==
    (/\ lastCitation.fileId \in Files
     /\ CardPage(lastCitation) \in 1..PageCount(lastCitation.fileId))
    => PanelShows(lastCitation.fileId, CardPage(lastCitation))

\* A block the transport is to skip: its payload does not decode, it has no
\* type line or no payload line, or its type is none of the four.
Malformed(b) ==
    \/ ~Decodes(b)
    \/ b.type = ""
    \/ b.doc = ""
    \/ b.type \notin { "token", "citation", "done", "error" }
WellFormedArrived == SelectSeq(SubSeq(tBlocks, 1, Arrived), LAMBDA b : ~Malformed(b))

\* C22: a block whose payload does not decode, that has no type line or no
\* payload line, or whose type is none of token, citation, done and error
\* invokes no callback and does not end the stream: the callbacks invoked are
\* those of the well-formed blocks that arrived, in order, and the function
\* returns early only after a done or error block that is well formed.
C22_MalformedBlockIsSkipped ==
    /\ tDispatched = Events(WellFormedArrived)
    /\ tPhase = "returned" =>
          \E k \in 1..Len(WellFormedArrived) : IsTerminal(WellFormedArrived[k])
    /\ (tPhase = "ended" /\ Len(tBlocks) = 2 /\ Malformed(tBlocks[1]))
          => tDispatched = EventOf(tBlocks[2])

C22_Witness ==
    /\ tPhase = "ended"
    /\ Len(tBlocks) = 2
    /\ tBlocks[1] = Block("token", "bad")
    /\ tBlocks[2] = Block("token", "ja")
    /\ Len(tDispatched) = 1
    /\ tDispatched[1].cb = "onToken"


\* -------------------------------------------------- what a turn commits

AssistantMessages == SelectSeq(messages, LAMBDA m : m.type = "assistant")
UserMessages == SelectSeq(messages, LAMBDA m : m.type = "user")
StreamError == turnLog # <<>> /\ LastCall = [cb |-> "onError", arg |-> [message |-> << "boom" >>]]

\* C23: once the error callback has run in a turn, the turn has added to the
\* messages one assistant message and no other; its content is the failure
\* text followed by the message of the event, it has no references, so the
\* tokens and citations received before are in no message; nothing is pending
\* and isTyping is false.
C23_ErrorCommitsOnlyFailureText ==
    TurnFailed =>
        /\ AssistantMessages =
              << WelcomeMessage, Message("assistant", ErrorPrefix \o LastCall.arg.message, <<>>) >>
        /\ LastMessage = AssistantMessages[2]
        /\ Len(UserMessages) = 1
        /\ NoPendingTurn

C23_Witness ==
    /\ StreamError
    /\ \E k \in 1..Len(turnLog) : turnLog[k].cb = "onToken"
    /\ \E k \in 1..Len(turnLog) : turnLog[k].cb = "onCitation" /\ turnLog[k].arg.citation_id # ""
    /\ LastMessage.content = ErrorPrefix \o << "boom" >>

\* The messages after the last user message (after the welcome message if
\* nothing was sent): what the turn in progress has added.
LastSent ==
    CHOOSE k \in DOMAIN messages :
        /\ k = 1 \/ messages[k].type = "user"
        /\ \A j \in (k + 1)..Len(messages) : messages[j].type # "user"
TurnMessages == SubSeq(messages, LastSent + 1, Len(messages))
TerminalCalls == { k \in DOMAIN turnLog : IsTerminalCall(turnLog[k]) }

\* C24: in the turn of a send the callbacks onDone and onError run at most
\* once between them, whatever the stream holds and however the request
\* fails, and the turn adds at most one assistant message: after the user
\* message of the turn there is one assistant message if one of the two ran,
\* none otherwise, and the stream is over once one of them ran.
C24_AtMostOneCompletion ==
    /\ Cardinality(TerminalCalls) <= 1
    /\ Len(TurnMessages) = Cardinality(TerminalCalls)
    /\ \A k \in DOMAIN TurnMessages : TurnMessages[k].type = "assistant"
    /\ TerminalCalls # {} => ~HasStream

C24_Witness ==
    /\ TurnFailed
    /\ LastCall.arg.message = NetworkError
    /\ turnLog[1].cb = "onToken"
    /\ Len(AssistantMessages) = 2

\* C25: the step that accepts a send (isTyping becomes true) appends the user
\* message with the text of the input, before any callback of the turn has
\* run, and leaves the text, the references and the seen citation ids of the
\* turn empty, whatever an earlier turn accumulated.
C25_SendOpensEmptyTurn ==
    [][(~isTyping /\ isTyping') =>
          /\ messages' = Append(messages, Message("user", input, <<>>))
          /\ turnLog' = <<>>
          /\ currentResponse' = <<>> /\ currentResponseRef' = <<>>
          /\ currentReferences' = <<>> /\ currentReferencesRef' = <<>>
          /\ citationIdsRef' = {}]_vars

C25_Witness ==
    /\ isTyping
    /\ turnLog = <<>>
    /\ Len(messages) = 4
    /\ messages[3].type = "assistant" /\ messages[3].references # <<>>
    /\ LastMessage = Message("user", << "q" >>, <<>>)
    /\ citationIdsRef = {} /\ currentReferencesRef = <<>>

IsPrefix(s, t) == Len(s) <= Len(t) /\ SubSeq(t, 1, Len(s)) = s

\* C26: as long as the chat is not remounted by a clear, every step (a send,
\* the callbacks of a chunk, the end or the failure of a request, a clear that
\* fails) leaves the messages there were as they are and where they are: the
\* list only grows at its end.
C26_MessagesOnlyGrow ==
    [][chatKey' = chatKey => IsPrefix(messages, messages')]_vars

C26_Witness ==
    /\ Len(messages) = 5
    /\ messages[3].type = "assistant" /\ messages[3].references # <<>>
    /\ messages[4].type = "user"
    /\ IsErrorMessage(LastMessage)

NoTokenCalled == \A k \in DOMAIN turnLog : turnLog[k].cb # "onToken"

\* C27: when onDone runs in a turn in which onToken never ran, the assistant
\* message it appends has the marker of an empty response as its content; no
\* message has the empty text as its content.
C27_EmptyResponseGetsMarker ==
    /\ (TurnDone /\ NoTokenCalled) =>
          (LastMessage.type = "assistant" /\ LastMessage.content = EmptyMarker)
    /\ \A k \in DOMAIN messages : messages[k].content # <<>>

C27_Witness ==
    /\ TurnDone
    /\ NoTokenCalled
    /\ Len(turnLog) = 2 /\ turnLog[1].cb = "onCitation"
    /\ LastMessage.content = EmptyMarker
    /\ LastMessage.references # <<>>

RefFields(refs) ==
    [k \in 1..Len(refs) |-> << refs[k].citationId, refs[k].page, refs[k].fileId >>]
CitationFields(cits) ==
    [k \in 1..Len(cits) |-> << cits[k].citation_id, cits[k].page, cits[k].fileId >>]

\* C28: when a turn of citations and tokens in any order ends in done, the
\* references of the appended message carry, in first-seen order, the
\* citation id, page and fileId of each citation seen first as they came, and
\* the notification that the response is grounded is shown if and only if
\* used_retrieval of the done event is true.
C28_DoneKeepsCitationsAndSignal ==
    TurnDone =>
        /\ Len(LastMessage.references) = Len(FirstSeen(turnLog, {}))
        /\ RefFields(LastMessage.references) = CitationFields(FirstSeen(turnLog, {}))
        /\ (toast = "grounded") <=> LastCall.arg.used_retrieval

C28_Witness ==
    /\ TurnDone
    /\ LastCall.arg.used_retrieval
    /\ toast = "grounded"
    /\ Len(turnLog) = 4
    /\ turnLog[1].cb = "onCitation" /\ turnLog[2].cb = "onToken" /\ turnLog[3].cb = "onCitation"
    /\ RefFields(LastMessage.references) = << << "c1", 3, "f1" >>, << "c2", 5, "f2" >> >>


\* ------------------------------------------------- a clear during a turn

\* The step is the callbacks of invocation i, or the end of i without any.
DeliveredBy(i) ==
    \/ streams' = Remove(streams, i)
    \/ Len(streams') = Len(streams) /\ streams'[i] # streams[i]

\* C29: when clearSession succeeds while the turn of the mounted chat has its
\* request open, the chat shown afterwards has the welcome message alone,
\* isTyping false and nothing pending; and no step in which an invocation of
\* the chat that was replaced runs its callbacks changes the messages,
\* isTyping, the pending text, the pending references or the seen ids.
C29_ClearedSessionIgnoresOldStream ==
    [][/\ (clearPc = "awaitClear" /\ HasStream /\ chatKey' # chatKey /\ toast' = "cleared")
            => (messages' = << WelcomeMessage >> /\ NoPendingTurn')
       /\ \A i \in DOMAIN streams :
            (streams[i].owner # chatKey /\ chatKey' = chatKey /\ DeliveredBy(i))
            => UNCHANGED << messages, isTyping, currentResponse, currentReferences,
                            currentResponseRef, currentReferencesRef, citationIdsRef >>]_vars

C29_Witness ==
    /\ chatKey = 1
    /\ sendsLeft = MaxSends - 1
    /\ streams = <<>>
    /\ toast = "grounded"
    /\ messages = << WelcomeMessage >>
    /\ NoPendingTurn


\* ------------------------------------------- the pre-rewrite and fixedSrc

\* The element rendered last is a markdown image written ./images/<file>.
EmbeddedRelativeImage ==
    /\ rendered.el.kind = "mdimg"
    /\ StartsWith(rendered.el.url, << ".", Slash, "images", Slash >>)
    /\ Len(rendered.el.url) > 4

\* C30: for a markdown image written ./images/<file> that the pre-rewrite
\* replaces by an address, that address is the one fixedSrc returns for the
\* same path, references and fallbackFileId; so when a Reference has the page
\* of the file name, the address is built from that Reference's fileId.
C30_PreRewriteAgreesWithResolver ==
    (EmbeddedRelativeImage /\ ImageFileId(references, fallbackFileId) # "") =>
        SanitizedContent(rendered.el, references, fallbackFileId).url
            = FixedSrc(rendered.el.url, references, fallbackFileId)


\* ------------------------------------------------ images without a file

\* C31: fixedSrc returns, for every path, references and fallbackFileId,
\* either the empty address or an absolute address; the image component shows
\* the placeholder exactly when fixedSrc returned the empty address, and an
\* image with the address returned otherwise.
C31_UnresolvedIsPlaceholder ==
    /\ \A p \in ImagePaths :
          LET a == FixedSrc(p, references, fallbackFileId) IN
          a = <<>> \/ StartsWith(a, << "http" >>)
    /\ rendered.el.kind = "mdimg" =>
          LET a == FixedSrc(RenderedPath, references, fallbackFileId) IN
          IF a = <<>> THEN rendered.tag = "placeholder" /\ rendered.url = <<>>
          ELSE rendered.tag = "img" /\ rendered.url = a

C31_Witness ==
    /\ rendered.el = Element("mdimg", RelPage99)
    /\ references # <<>>
    /\ FileRefs = {}
    /\ fallbackFileId = ""
    /\ rendered.tag = "placeholder"


\* ----------------------------------------------------------- the preview

\* C32: a click on an image of the text opens the preview with the address
\* the image was rendered with, a click on a thumbnail of a card opens it with
\* the address of the thumbnail; neither calls onCitationClick, and neither
\* is a click on a card.
C32_ImageClicksOnlyPreview ==
    [][/\ ClickImage =>
            /\ previewImage' = rendered.url
            /\ navigated' = navigated /\ cardClicks' = cardClicks
       /\ \A k \in 1..MaxRefs :
            ClickThumbnail(k) =>
              /\ previewImage' = GetImageUrl(Cards(references)[k].fileId, ThumbnailName)
              /\ navigated' = navigated /\ cardClicks' = cardClicks]_vars

C32_Witness ==
    /\ rendered.tag = "img"
    /\ previewImage # <<>>
    /\ previewImage # rendered.url
    /\ Len(Cards(references)) = 2
    /\ cardClicks = 1
    /\ Len(navigated) = 1


\* ------------------------------------------------- paragraphs and code

\* The tags of block-level elements: code block, table, lists, quote, figure
\* and the generic block container.
BlockLevel == { "pre", "table", "ul", "ol", "blockquote", "figure", "div" }
RenderedParagraph == rendered.el.kind = "p"

\* C33: a paragraph with a block-level element among its direct children is
\* rendered as a div, so no p that is rendered has a block-level child.
C33_NoBlockChildInParagraph ==
    (/\ RenderedParagraph
     /\ \E k \in 1..Len(rendered.el.children) : rendered.el.children[k] \in BlockLevel)
    => rendered.tag = "div"

\* A fenced block: not inline, its class the language tag if it has one.
RenderedFence == rendered.el.kind = "code" /\ ~rendered.el.inline

\* C34: a fenced block with a language tag is rendered as a block that shows
\* the tag as its label and has a Copy button, whatever the tag and also when
\* its text is one line; code without a language tag whose text is one line
\* is rendered as inline code.
C34_TaggedFenceIsLabelledBlock ==
    /\ (RenderedFence /\ rendered.el.className # <<>>) =>
          /\ rendered.tag = "div"
          /\ rendered.label = Tail(rendered.el.className)
          /\ rendered.copy
    /\ (/\ rendered.el.kind = "code"
        /\ rendered.el.className = <<>>
        /\ ~Includes(CodeContent(rendered.el.children), << NL >>))
       => rendered.tag = "code"


\* ------------------------------------------------------ a send refused

\* The input is blank, a turn is in progress, or the mode is single-document
\* and no file is selected.
SendRefused ==
    \/ Blank(input)
    \/ isTyping
    \/ (chatMode = "single" /\ currentFileId = NoFile)

\* C35: handleSend called while the input is blank, a turn is in progress or
\* the single-document mode has no file changes nothing: no step taken from
\* such a state by handleSend appends a message, opens a request, runs the
\* abort statement, or changes the input, the pending turn or isTyping; and
\* no step at all taken from such a state starts a turn.
C35_RefusedSendIsNoOp ==
    [][SendRefused =>
          /\ HandleSend =>
                /\ messages' = messages /\ streams' = streams /\ input' = input
                /\ isTyping' = isTyping /\ turnLog' = turnLog
                /\ currentResponse' = currentResponse
                /\ currentReferences' = currentReferences
                /\ currentResponseRef' = currentResponseRef
                /\ currentReferencesRef' = currentReferencesRef
                /\ citationIdsRef' = citationIdsRef
          /\ Len(streams') <= Len(streams)
          /\ ~(~isTyping /\ isTyping')
          /\ (Len(messages') > Len(messages) => messages'[Len(messages')].type = "assistant")]_vars

C35_Witness ==
    /\ chatMode = "single" /\ currentFileId = NoFile
    /\ input = << "q" >>
    /\ ~isTyping
    /\ messages = << WelcomeMessage >>
    /\ streams = <<>>
    /\ sendsLeft = 1


\* ------------------------------------------- displayed and accumulated

\* The citationIds of a list of references.
CitationIdsOf(refs) == { refs[i].citationId : i \in DOMAIN refs }

\* C36: between handlers the displayed in-flight text and references equal
\* the accumulated text and references, and the set of seen citation ids is
\* the set of citationIds of the pending references.
C36_DisplayedEqualsAccumulated ==
    /\ currentResponse = currentResponseRef
    /\ currentReferences = currentReferencesRef
    /\ citationIdsRef = CitationIdsOf(currentReferencesRef)

C36_Witness ==
    /\ isTyping
    /\ currentResponseRef # <<>>
    /\ Len(currentReferencesRef) = 2
    /\ Cardinality(citationIdsRef) = 2


\* ------------------------------------------------ the numbers of cards

\* C37: every message on display has one card for each of its references, in
\* the order of the list, and the number on the card at place k is the id the
\* reference received when its citation arrived.
C37_CardNumberIsDisplayIndex ==
    \A refs \in DisplayedReferenceLists :
        /\ Cards(refs) = refs
        /\ \A k \in DOMAIN refs : ShownNumber(k - 1) = refs[k].id

C37_Witness ==
    /\ \E i \in DOMAIN messages :
          /\ messages[i].type = "assistant"
          /\ Len(Cards(messages[i].references)) = 2
    /\ turnLog # <<>>

C37_WitnessPending ==
    /\ isTyping /\ currentResponse # <<>>
    /\ Len(Cards(currentReferences)) = 2


\* ------------------------------------------------- replace and upload

\* The panel as handleReplace leaves it: idle, without file id or pages.
PanelEmpty(p) == p.uploadStatus = "idle" /\ p.fileId = "" /\ p.totalPages = 0

\* A step in which a request or a timer of a run of handleFileUpload, or a
\* status request, comes back to the panel.
AnsweredRequest ==
    \/ uploads' # uploads /\ Len(uploads') <= Len(uploads)
    \/ Len(polls') < Len(polls)

\* C38: once handleReplace has reset the panel, the answers of the upload,
\* the parse start and the status requests begun before it leave the panel
\* idle, without file id and with page count 0.
C38_ReplacedPanelStaysIdle ==
    [][(PanelEmpty(panel) /\ AnsweredRequest) => PanelEmpty(panel')]_vars

\* C39: the page shown is at least 1 and at most max(1, totalPages).
C39_CurrentPageInRange ==
    /\ 1 <= panel.currentPage
    /\ panel.currentPage <= (IF panel.totalPages > 1 THEN panel.totalPages ELSE 1)

====
